---------------------------- MODULE Spec2Model ----------------------------
(***************************************************************************)
(* Message-consumption layer of the psychology-session-analyzer pipeline.  *)
(*                                                                         *)
(* One worker process of one stage (audio-transcriber or                   *)
(* transcript-analyzer): the RabbitMQBroker adapter (setup, publish,       *)
(* acknowledge, reject, consume), the Worker callback _on_message, and the *)
(* broker the adapter talks to (queues, unacknowledged deliveries,         *)
(* delivery limit, dead-lettering).                                        *)
(*                                                                         *)
(* Specifications:                                                         *)
(*   Spec              one worker from start-up on                         *)
(*   SpecHeaders       the callback on deliveries of every header shape    *)
(*   SpecConsume       the worker on a connection that may drop            *)
(*   SpecLive          Spec with the scheduling of process and broker      *)
(*   SpecConfig        the operations next to an assignment to the config  *)
(*   SpecPipeline      upload service and the three stages on one broker   *)
(*   SpecPipelineFair  SpecPipeline with the scheduling of the stages      *)
(*   SpecStart         the worker from the call of setup by name           *)
(*   SpecHandler       the transcript-analyzer's handler: cache, LLM,      *)
(*                     database                                            *)
(*   SpecWorkers       several workers inside save_session_insights        *)
(***************************************************************************)
EXTENDS Integers, Sequences, FiniteSets, TLC

(***************************************************************************)
(* Bounds of the model.                                                    *)
(***************************************************************************)
MaxMsgs == 2        \* messages an upstream producer routes to the stage
MaxTag == 3         \* deliveries the broker makes on the channel

(***************************************************************************)
(* Text values.  A string that names an object is kept as its "/"-separated*)
(* segments plus the extension of the last segment, so that the path       *)
(* rewriting of the transcript builder is computed, not assumed.           *)
(***************************************************************************)
Str(segs, ext) == [t |-> "str", segs |-> segs, ext |-> ext]
Absent == [t |-> "absent", segs |-> <<>>, ext |-> ""]
Num == [t |-> "num", segs |-> <<>>, ext |-> ""]

AudioName == Str(<<"s1", "audio", "a">>, "wav")
TranscriptName == Str(<<"2025", "01", "15", "sid", "transcripts", "john-doe">>, "txt")
Bucket == Str(<<"sessions">>, "")

(***************************************************************************)
(* Message bodies as the bytes the broker hands over: bytes that are not   *)
(* JSON, or a JSON object.                                                 *)
(***************************************************************************)
Keys == {"file_name", "bucket_name", "content_type"}

Obj(f, b, c) ==
    [kind |-> "object",
     fields |-> [k \in Keys |-> CASE k = "file_name" -> f
                                  [] k = "bucket_name" -> b
                                  [] OTHER -> c]]
Garbage == [kind |-> "garbage", fields |-> [k \in Keys |-> Absent]]

Bodies ==
    { Garbage,
      Obj(Absent, Bucket, Absent),
      Obj(AudioName, Absent, Absent),
      Obj(AudioName, Bucket, Absent),
      Obj(TranscriptName, Bucket, Str(<<"text", "plain">>, "")) }


(***************************************************************************)
(* Configuration (frozen after load).                                      *)
(***************************************************************************)
Stages == {"audio-transcriber", "transcript-analyzer"}

max_delivery_count == 3

exchange_name == "events"

\* The stages that carry a QueueConfig; the audio-extractor's worker is not
\* part of the process modelled below.
ConfiguredStages == Stages \cup {"audio-extractor"}

queue_config_SharedDlqKey(s) ==
    IF s = "audio-extractor"
    THEN [name |-> "audio_extraction_queue",
          queue_type |-> "quorum",
          max_delivery_count |-> max_delivery_count,
          expected_routing_key |-> "video.upload.completed",
          success_routing_key |-> "audio.extraction.completed",
          dlq_name |-> "dlq_audio_extraction",
          dlq_exchange_name |-> "dead_letter_exchange",
          dlq_routing_key |-> "processing.failed"]
    ELSE IF s = "audio-transcriber"
    THEN [name |-> "audio_transcription_queue",
          queue_type |-> "quorum",
          max_delivery_count |-> max_delivery_count,
          expected_routing_key |-> "audio.extraction.completed",
          success_routing_key |-> "audio.transcription.completed",
          dlq_name |-> "dlq_audio_transcriber",
          dlq_exchange_name |-> "dead_letter_exchange",
          dlq_routing_key |-> "processing.failed"]
    ELSE [name |-> "transcript_analysis_queue",
          queue_type |-> "quorum",
          max_delivery_count |-> max_delivery_count,
          expected_routing_key |-> "audio.transcription.completed",
          success_routing_key |-> "transcript.analysis.completed",
          dlq_name |-> "dlq_transcript_analyzer",
          dlq_exchange_name |-> "dead_letter_exchange",
          dlq_routing_key |-> "processing.failed"]

queue_config_Cycle(s) ==
    IF s = "audio-extractor"
    THEN [name |-> "audio_extraction_queue",
          queue_type |-> "quorum",
          max_delivery_count |-> max_delivery_count,
          expected_routing_key |-> "video.upload.completed",
          success_routing_key |-> "audio.extraction.completed",
          dlq_name |-> "dlq_audio_extraction",
          dlq_exchange_name |-> "dead_letter_exchange",
          dlq_routing_key |-> "audio.extraction.failed"]
    ELSE IF s = "audio-transcriber"
    THEN [name |-> "audio_transcription_queue",
          queue_type |-> "quorum",
          max_delivery_count |-> max_delivery_count,
          expected_routing_key |-> "audio.extraction.completed",
          success_routing_key |-> "audio.transcription.completed",
          dlq_name |-> "dlq_audio_transcriber",
          dlq_exchange_name |-> "dead_letter_exchange",
          dlq_routing_key |-> "audio.transcription.failed"]
    ELSE [name |-> "transcript_analysis_queue",
          queue_type |-> "quorum",
          max_delivery_count |-> max_delivery_count,
          expected_routing_key |-> "audio.transcription.completed",
          success_routing_key |-> "audio.extraction.completed",
          dlq_name |-> "dlq_transcript_analyzer",
          dlq_exchange_name |-> "dead_letter_exchange",
          dlq_routing_key |-> "transcript.analysis.failed"]

queue_config_SelfTrigger(s) ==
    IF s = "audio-extractor"
    THEN [name |-> "audio_extraction_queue",
          queue_type |-> "quorum",
          max_delivery_count |-> max_delivery_count,
          expected_routing_key |-> "video.upload.completed",
          success_routing_key |-> "audio.extraction.completed",
          dlq_name |-> "dlq_audio_extraction",
          dlq_exchange_name |-> "dead_letter_exchange",
          dlq_routing_key |-> "audio.extraction.failed"]
    ELSE IF s = "audio-transcriber"
    THEN [name |-> "audio_transcription_queue",
          queue_type |-> "quorum",
          max_delivery_count |-> max_delivery_count,
          expected_routing_key |-> "audio.extraction.completed",
          success_routing_key |-> "audio.transcription.completed",
          dlq_name |-> "dlq_audio_transcriber",
          dlq_exchange_name |-> "dead_letter_exchange",
          dlq_routing_key |-> "audio.transcription.failed"]
    ELSE [name |-> "transcript_analysis_queue",
          queue_type |-> "quorum",
          max_delivery_count |-> max_delivery_count,
          expected_routing_key |-> "audio.transcription.completed",
          success_routing_key |-> "audio.transcription.completed",
          dlq_name |-> "dlq_transcript_analyzer",
          dlq_exchange_name |-> "dead_letter_exchange",
          dlq_routing_key |-> "transcript.analysis.failed"]

queue_config(s) ==
    IF s = "audio-extractor"
    THEN [name |-> "audio_extraction_queue",
          queue_type |-> "quorum",
          max_delivery_count |-> max_delivery_count,
          expected_routing_key |-> "video.upload.completed",
          success_routing_key |-> "audio.extraction.completed",
          dlq_name |-> "dlq_audio_extraction",
          dlq_exchange_name |-> "dead_letter_exchange",
          dlq_routing_key |-> "audio.extraction.failed"]
    ELSE IF s = "audio-transcriber"
    THEN [name |-> "audio_transcription_queue",
          queue_type |-> "quorum",
          max_delivery_count |-> max_delivery_count,
          expected_routing_key |-> "audio.extraction.completed",
          success_routing_key |-> "audio.transcription.completed",
          dlq_name |-> "dlq_audio_transcriber",
          dlq_exchange_name |-> "dead_letter_exchange",
          dlq_routing_key |-> "audio.transcription.failed"]
    ELSE [name |-> "transcript_analysis_queue",
          queue_type |-> "quorum",
          max_delivery_count |-> max_delivery_count,
          expected_routing_key |-> "audio.transcription.completed",
          success_routing_key |-> "transcript.analysis.completed",
          dlq_name |-> "dlq_transcript_analyzer",
          dlq_exchange_name |-> "dead_letter_exchange",
          dlq_routing_key |-> "transcript.analysis.failed"]

(***************************************************************************)
(* Envelope decoding: json.loads(body) followed by model_validate.         *)
(*   "JSONDecodeError"  the bytes are not JSON (raised by json.loads)      *)
(*   "ValidationError"  JSON, but not an object carrying string file_name  *)
(*                      and bucket_name (raised by model_validate)         *)
(*   "ok"               a valid envelope; unknown fields are ignored       *)
(***************************************************************************)
json_loads(body) == IF body.kind = "garbage" THEN "JSONDecodeError" ELSE "ok"

model_validate_BucketOnly(body) ==
    IF body.kind = "object" /\ body.fields["bucket_name"].t = "str"
    THEN "ok"
    ELSE "ValidationError"

model_validate_ForbidExtra(body) ==
    IF /\ body.kind = "object"
       /\ body.fields["file_name"].t = "str"
       /\ body.fields["bucket_name"].t = "str"
       /\ body.fields["content_type"].t = "absent"
    THEN "ok"
    ELSE "ValidationError"

model_validate(body) ==
    IF /\ body.kind = "object"
       /\ body.fields["file_name"].t = "str"
       /\ body.fields["bucket_name"].t = "str"
    THEN "ok"
    ELSE "ValidationError"

Decode(body) ==
    IF json_loads(body) # "ok" THEN json_loads(body) ELSE model_validate(body)

Envelope(body) ==
    [file_name |-> body.fields["file_name"],
     bucket_name |-> body.fields["bucket_name"]]

NoEnvelope == [file_name |-> Absent, bucket_name |-> Absent]

(***************************************************************************)
(* TranscriptBuilder._derive_path: replace "/audio/" by "/transcription/"  *)
(* (a segment with a segment on either side; matches do not overlap) and   *)
(* the extension by ".txt".                                                *)
(***************************************************************************)
RECURSIVE ReplaceAudio(_, _, _)
ReplaceAudio(segs, i, prevReplaced) ==
    IF i > Len(segs) THEN <<>>
    ELSE LET hit == /\ segs[i] = "audio"
                    /\ i > 1
                    /\ i < Len(segs)
                    /\ ~prevReplaced
         IN  <<IF hit THEN "transcription" ELSE segs[i]>>
               \o ReplaceAudio(segs, i + 1, hit)

_derive_path(name) == Str(ReplaceAudio(name.segs, 1, FALSE), "txt")

(***************************************************************************)
(* The value handler.process returns when it does not raise.               *)
(*   AudioMessageHandler.process     -> TranscriptionResult                *)
(*   TranscriptMessageHandler.process -> AnalysisResult                    *)
(***************************************************************************)
ProcessResult(s, message) ==
    IF s = "audio-transcriber"
    THEN [file_name |-> _derive_path(message.file_name),
          bucket_name |-> message.bucket_name,
          content_type |-> Str(<<"text", "plain">>, "")]
    ELSE [file_name |-> message.file_name,
          bucket_name |-> message.bucket_name,
          content_type |-> Absent]

NoResult == [file_name |-> Absent, bucket_name |-> Absent, content_type |-> Absent]

(***************************************************************************)
(* The payload Worker._on_message hands to publish, and its JSON body.     *)
(***************************************************************************)
SuccessPayload_FromMessage(s, message, result) ==
    Obj(message.file_name, message.bucket_name,
        IF s = "audio-transcriber" THEN result.content_type ELSE Absent)

SuccessPayload(s, message, result) ==
    Obj(result.file_name, result.bucket_name,
        IF s = "audio-transcriber" THEN result.content_type ELSE Absent)


(***************************************************************************)
(* TranscriptMessageHandler.process starts with                            *)
(* SessionMetadata.from_file_path, which raises unless the path has at     *)
(* least 6 segments; AudioMessageHandler.process has no such gate.  Every  *)
(* handler may raise for other reasons (storage, transcription, LLM, DB).  *)
(***************************************************************************)
ProcessOutcomes(s, message) ==
    IF s = "transcript-analyzer" /\ Len(message.file_name.segs) < 6
    THEN {"raise"}
    ELSE {"ok", "raise"}

(***************************************************************************)
(* State.                                                                  *)
(***************************************************************************)
VARIABLES
    stage,       \* the service this process runs
    given,       \* headers of the deliveries that were pending when the
                 \* callback specification starts, by tag (history)
    pc,          \* position of the process: setup, start, idle (in
                 \* start_consuming, between callbacks), decode, process,
                 \* ack, publish, success, reject_invalid, reject_failed,
                 \* stopped (an exception ended consume), failed (setup
                 \* raised)
    requested,   \* declarations setup() has requested so far, in order
    exchanges,   \* broker: declared exchanges
    queues,      \* broker: declared queues with their arguments
    bindings,    \* broker: queue bindings
    ready,       \* broker: messages ready in the stage's main queue
    dlq,         \* broker: messages in the stage's dead-letter queue
    lost,        \* broker: messages dead-lettered with nowhere to go
    unacked,     \* broker: deliveries on the channel not yet settled
    inbox,       \* deliveries pushed to the client, callback not yet run
    nextTag,     \* next delivery tag of the channel
    nextId,      \* next message identity (history)
    cur,         \* delivery tag the callback is working on, 0 if none
    message,     \* the decoded envelope of the current callback
    result,      \* what handler.process returned in the current callback
    hist,        \* per delivery tag: what the callback did (history)
    published,   \* events published to the shared exchange, in order
    escaped,     \* exception that left _on_message or setup, "none" if none
    config,      \* the RabbitMQConfig object the adapter and the worker share
    assigned,    \* outcome of an attempt to assign a field of config:
                 \* "none" (no attempt), "error" (it raised), "done"
    running,     \* pipeline: the services that have declared their topology
    held,        \* pipeline: the messages of every queue, by queue name
    events,      \* pipeline: events published to the shared exchange
    work,        \* pipeline: the callbacks the stages have run (history)
    uploads,     \* pipeline: sessions uploaded so far
    cache,       \* handler: the Redis cache, by key
    db,          \* handler: the tables patients, sessions, session_insights
    handled,     \* handler: the calls of process that have returned (history)
    local,       \* handler: per worker, where its save_session_insights is
    objects,     \* upload: the objects in storage
    responses    \* upload: the responses of the upload endpoint (history)

vars == <<stage, given, pc, requested, exchanges, queues, bindings, ready, dlq, lost,
          unacked, inbox, nextTag, nextId, cur, message, result, hist,
          published, escaped, config, assigned, running, held, events, work,
          uploads, cache, db, handled, local, objects, responses>>

topology == <<exchanges, queues, bindings>>
brokerMsgs == <<ready, dlq, lost, unacked>>
callback == <<cur, message, result>>
configuration == <<config, assigned>>
pipeline == <<running, held, events, work, uploads>>
handler == <<cache, db, handled, local>>
endpoint == <<objects, responses>>

\* RabbitMQConfig as a service constructs it at start: the shared exchange
\* and the stage's QueueConfig.
RabbitMQConfig(s) ==
    [exchange_name |-> exchange_name, queue_config |-> queue_config(s)]

cfg == config.queue_config

\* The main queue and the dead-letter queue of every stage.
QueueNames ==
    UNION {{queue_config(s).name, queue_config(s).dlq_name} :
              s \in ConfiguredStages}

\* No service of the pipeline has started.
NoPipeline ==
    /\ running = {}
    /\ held = [q \in QueueNames |-> <<>>]
    /\ events = {}
    /\ work = {}
    /\ uploads = 0

(***************************************************************************)
(* The transcript-analyzer's handler: what it keeps in the cache and in    *)
(* the database.                                                           *)
(***************************************************************************)
SessionIds == {"sid", "sid2"}

\* TranscriptAnalyzer.analyze: cache_key = f"analysis:{session_id}"
cache_key(session_id) == <<"analysis", session_id>>

CacheKeys == {cache_key(session_id) : session_id \in SessionIds}

\* What redis get returns: a string, or None when the key holds nothing.
NoValue == [present |-> FALSE, text |-> <<>>]

Value(text) == [present |-> TRUE, text |-> text]

EmptyDb == [patients |-> {}, sessions |-> {}, session_insights |-> {}]

\* The processes that consume the transcript-analyzer's queue.
Workers == {1, 2}

NoPatient == [id |-> 0, first_name |-> "", last_name |-> ""]

NoMetadata ==
    [session_id |-> "", session_date |-> <<0, 0, 0>>,
     patient_first_name |-> "", patient_last_name |-> ""]

\* A worker that is not inside save_session_insights.
NoSave ==
    [pc |-> "idle", metadata |-> NoMetadata, patient |-> NoPatient,
     saves |-> 0]

\* Nothing cached, nothing persisted, no call made.
NoHandler ==
    /\ cache = [k \in CacheKeys |-> NoValue]
    /\ db = EmptyDb
    /\ handled = <<>>
    /\ local = [w \in Workers |-> NoSave]

\* Nothing stored, no request answered.
NoEndpoint ==
    /\ objects = {}
    /\ responses = <<>>

NoArguments == [n \in {} |-> 0]

(***************************************************************************)
(* RabbitMQBroker.setup: the six declarations, their order, and the        *)
(* arguments of the main queue.                                            *)
(***************************************************************************)
MainQueueArguments_NoLimit(qc) ==
    [n \in {"x-queue-type", "x-dead-letter-exchange",
            "x-dead-letter-routing-key"} |->
        CASE n = "x-queue-type" -> qc.queue_type
          [] n = "x-dead-letter-exchange" -> qc.dlq_exchange_name
          [] OTHER -> qc.dlq_routing_key]

MainQueueArguments_SwappedDeadLetter(qc) ==
    [n \in {"x-queue-type", "x-delivery-limit", "x-dead-letter-exchange",
            "x-dead-letter-routing-key"} |->
        CASE n = "x-queue-type" -> qc.queue_type
          [] n = "x-delivery-limit" -> qc.max_delivery_count
          [] n = "x-dead-letter-exchange" -> qc.dlq_routing_key
          [] OTHER -> qc.dlq_exchange_name]

MainQueueArguments(qc) ==
    [n \in {"x-queue-type", "x-delivery-limit", "x-dead-letter-exchange",
            "x-dead-letter-routing-key"} |->
        CASE n = "x-queue-type" -> qc.queue_type
          [] n = "x-delivery-limit" -> qc.max_delivery_count
          [] n = "x-dead-letter-exchange" -> qc.dlq_exchange_name
          [] OTHER -> qc.dlq_routing_key]

DlxDeclaration(qc) ==
    [exchange |-> qc.dlq_exchange_name, exchange_type |-> "direct",
     durable |-> TRUE]

DlqDeclaration_Quorum(qc) ==
    [queue |-> qc.dlq_name, durable |-> TRUE,
     arguments |-> [n \in {"x-queue-type"} |-> qc.queue_type]]

DlqDeclaration(qc) ==
    [queue |-> qc.dlq_name, durable |-> TRUE, arguments |-> NoArguments]

DlqBinding(qc) ==
    [queue |-> qc.dlq_name, exchange |-> qc.dlq_exchange_name,
     routing_key |-> qc.dlq_routing_key]

ExchangeDeclaration ==
    [exchange |-> exchange_name, exchange_type |-> "topic", durable |-> TRUE]

QueueDeclaration(qc) ==
    [queue |-> qc.name, durable |-> TRUE, arguments |-> MainQueueArguments(qc)]

QueueBinding(qc) ==
    [queue |-> qc.name, exchange |-> exchange_name,
     routing_key |-> qc.expected_routing_key]

\* The statements of setup(), in source order.
SetupOrder_BindFirst ==
    <<"dlx", "dlq_binding", "dlq", "exchange", "binding", "queue">>

SetupOrder ==
    <<"dlx", "dlq", "dlq_binding", "exchange", "queue", "binding">>

\* setup() has no try block and is called at module level of dependencies:
\* an error of a declaration ends the process before a worker exists.
AfterSetupError_Swallowed == "start"

AfterSetupError == "failed"

(***************************************************************************)
(* The broker's topology when the process starts: nothing declared yet,    *)
(* the topology of the configuration (left by an earlier start), or a main *)
(* queue that an earlier revision declared durable without arguments.      *)
(***************************************************************************)
EmptyTopology == [exchanges |-> {}, queues |-> {}, bindings |-> {}]

ConfiguredTopology(qc) ==
    [exchanges |->
        {[exchange |-> qc.dlq_exchange_name, exchange_type |-> "direct",
          durable |-> TRUE],
         [exchange |-> exchange_name, exchange_type |-> "topic",
          durable |-> TRUE]},
     queues |->
        {[queue |-> qc.dlq_name, durable |-> TRUE, arguments |-> NoArguments],
         [queue |-> qc.name, durable |-> TRUE,
          arguments |->
             [n \in {"x-queue-type", "x-delivery-limit",
                     "x-dead-letter-exchange", "x-dead-letter-routing-key"} |->
                 IF n = "x-queue-type" THEN qc.queue_type
                 ELSE IF n = "x-delivery-limit" THEN qc.max_delivery_count
                 ELSE IF n = "x-dead-letter-exchange" THEN qc.dlq_exchange_name
                 ELSE qc.dlq_routing_key]]},
     bindings |->
        {[queue |-> qc.dlq_name, exchange |-> qc.dlq_exchange_name,
          routing_key |-> qc.dlq_routing_key],
         [queue |-> qc.name, exchange |-> exchange_name,
          routing_key |-> qc.expected_routing_key]}]

LegacyTopology(qc) ==
    [exchanges |->
        {[exchange |-> qc.dlq_exchange_name, exchange_type |-> "direct",
          durable |-> TRUE],
         [exchange |-> exchange_name, exchange_type |-> "topic",
          durable |-> TRUE]},
     queues |->
        {[queue |-> qc.dlq_name, durable |-> TRUE, arguments |-> NoArguments],
         [queue |-> qc.name, durable |-> TRUE, arguments |-> NoArguments]},
     bindings |->
        {[queue |-> qc.dlq_name, exchange |-> qc.dlq_exchange_name,
          routing_key |-> qc.dlq_routing_key],
         [queue |-> qc.name, exchange |-> exchange_name,
          routing_key |-> qc.expected_routing_key]}]

InitialTopologies(qc) ==
    {EmptyTopology, ConfiguredTopology(qc), LegacyTopology(qc)}

\* Declaring an exchange or a queue that exists with the same attributes is
\* a no-op; with other attributes the broker refuses it.  Binding needs its
\* queue and its exchange to exist.
ExchangeConflict(e) == \E x \in exchanges : x.exchange = e.exchange /\ x # e

QueueConflict(q) == \E x \in queues : x.queue = q.queue /\ x # q

BindingRefused(b) ==
    \/ ~\E q \in queues : q.queue = b.queue
    \/ ~\E e \in exchanges : e.exchange = b.exchange

Init ==
    /\ stage \in Stages
    /\ given = <<>>
    /\ pc = "setup"
    /\ requested = <<>>
    /\ \E T \in InitialTopologies(queue_config(stage)) :
          /\ exchanges = T.exchanges
          /\ queues = T.queues
          /\ bindings = T.bindings
    /\ ready = <<>>
    /\ dlq = <<>>
    /\ lost = {}
    /\ unacked = {}
    /\ inbox = <<>>
    /\ nextTag = 1
    /\ nextId = 1
    /\ cur = 0
    /\ message = NoEnvelope
    /\ result = NoResult
    /\ hist = <<>>
    /\ published = <<>>
    /\ escaped = "none"
    /\ config = RabbitMQConfig(stage)
    /\ assigned = "none"
    /\ NoPipeline
    /\ NoHandler
    /\ NoEndpoint

\* One statement of setup(): the declaration is requested; when the broker
\* refuses it the error leaves setup(), otherwise setup() goes on and, after
\* the last statement, returns.
SetupStep(kind, refused) ==
    /\ pc = "setup"
    /\ Len(requested) < Len(SetupOrder)
    /\ SetupOrder[Len(requested) + 1] = kind
    /\ requested' = Append(requested, kind)
    /\ IF refused
       THEN pc' = AfterSetupError /\ escaped' = "setup"
       ELSE /\ pc' = IF Len(requested) + 1 = Len(SetupOrder) THEN "start"
                                                              ELSE "setup"
            /\ UNCHANGED escaped

DeclareDlx ==
    /\ SetupStep("dlx", ExchangeConflict(DlxDeclaration(cfg)))
    /\ exchanges' = IF ExchangeConflict(DlxDeclaration(cfg)) THEN exchanges
                    ELSE exchanges \cup {DlxDeclaration(cfg)}
    /\ UNCHANGED <<configuration, handler, endpoint, pipeline, stage, given, queues, bindings, brokerMsgs, inbox, nextTag,
                   nextId, callback, hist, published>>

DeclareDlq ==
    /\ SetupStep("dlq", QueueConflict(DlqDeclaration(cfg)))
    /\ queues' = IF QueueConflict(DlqDeclaration(cfg)) THEN queues
                 ELSE queues \cup {DlqDeclaration(cfg)}
    /\ UNCHANGED <<configuration, handler, endpoint, pipeline, stage, given, exchanges, bindings, brokerMsgs, inbox, nextTag,
                   nextId, callback, hist, published>>

BindDlq ==
    /\ SetupStep("dlq_binding", BindingRefused(DlqBinding(cfg)))
    /\ bindings' = IF BindingRefused(DlqBinding(cfg)) THEN bindings
                   ELSE bindings \cup {DlqBinding(cfg)}
    /\ UNCHANGED <<configuration, handler, endpoint, pipeline, stage, given, exchanges, queues, brokerMsgs, inbox, nextTag,
                   nextId, callback, hist, published>>

DeclareExchange ==
    /\ SetupStep("exchange", ExchangeConflict(ExchangeDeclaration))
    /\ exchanges' = IF ExchangeConflict(ExchangeDeclaration) THEN exchanges
                    ELSE exchanges \cup {ExchangeDeclaration}
    /\ UNCHANGED <<configuration, handler, endpoint, pipeline, stage, given, queues, bindings, brokerMsgs, inbox, nextTag,
                   nextId, callback, hist, published>>

DeclareQueue ==
    /\ SetupStep("queue", QueueConflict(QueueDeclaration(cfg)))
    /\ queues' = IF QueueConflict(QueueDeclaration(cfg)) THEN queues
                 ELSE queues \cup {QueueDeclaration(cfg)}
    /\ UNCHANGED <<configuration, handler, endpoint, pipeline, stage, given, exchanges, bindings, brokerMsgs, inbox, nextTag,
                   nextId, callback, hist, published>>

BindQueue ==
    /\ SetupStep("binding", BindingRefused(QueueBinding(cfg)))
    /\ bindings' = IF BindingRefused(QueueBinding(cfg)) THEN bindings
                   ELSE bindings \cup {QueueBinding(cfg)}
    /\ UNCHANGED <<configuration, handler, endpoint, pipeline, stage, given, exchanges, queues, brokerMsgs, inbox, nextTag,
                   nextId, callback, hist, published>>

(***************************************************************************)
(* Worker.start -> RabbitMQBroker.consume: basic_consume registers the     *)
(* consumer, start_consuming blocks and dispatches callbacks.              *)
(***************************************************************************)
StartConsuming ==
    /\ pc = "start"
    /\ pc' = "idle"
    /\ UNCHANGED <<configuration, handler, endpoint, pipeline, stage, given, requested, topology, brokerMsgs, inbox, nextTag,
                   nextId, callback, hist, published, escaped>>


(***************************************************************************)
(* The broker.                                                             *)
(***************************************************************************)
\* Queues an exchange routes a key to.  The stages bind without wildcards,
\* so topic and direct matching are both equality of keys.
Route(exchange, key) ==
    IF \E e \in exchanges : e.exchange = exchange
    THEN {b.queue : b \in {x \in bindings : x.exchange = exchange
                                           /\ x.routing_key = key}}
    ELSE {}

ArgumentsOf(queue) == (CHOOSE q \in queues : q.queue = queue).arguments

\* An upstream producer publishes an event for this stage.
UpstreamPublish ==
    /\ nextId <= MaxMsgs
    /\ cfg.name \in Route(exchange_name, cfg.expected_routing_key)
    /\ \E body \in Bodies :
          ready' = Append(ready, [id |-> nextId, body |-> body, dc |-> 0])
    /\ nextId' = nextId + 1
    /\ UNCHANGED <<configuration, handler, endpoint, pipeline, stage, given, pc, requested, topology, dlq, lost, unacked, inbox,
                   nextTag, callback, hist, published, escaped>>

NoBody == [kind |-> "none", fields |-> [k \in Keys |-> Absent]]

NoHistory(t, m) ==
    [tag |-> t, id |-> m.id, body |-> m.body, delivery |-> m.dc,
     invocations |-> 0, received |-> NoBody,
     attempt |-> 0, calls |-> <<>>, processOutcome |-> "none",
     result |-> NoResult, errorLogs |-> 0, exit |-> "none"]

\* Message properties as pika hands them over: headers is None (dict FALSE)
\* or a dictionary, which may or may not hold x-delivery-count.
NoHeaders == [dict |-> FALSE, present |-> FALSE, count |-> 0]

DeliveryCountHeader(n) == [dict |-> TRUE, present |-> TRUE, count |-> n]

\* The broker pushes the head of the main queue to the registered consumer.
\* No basic_qos is ever issued, so it does not wait for earlier deliveries
\* to be settled.  x-delivery-count carries the attempt number; on a first
\* delivery the header may be absent.
Deliver ==
    /\ pc \notin {"setup", "start", "stopped", "failed"}
    /\ ready # <<>>
    /\ nextTag <= MaxTag
    /\ LET m == [Head(ready) EXCEPT !.dc = @ + 1]
       IN  \E present \in {TRUE, FALSE} :
              /\ (~present) => m.dc = 1
              /\ inbox' = Append(inbox,
                    [tag |-> nextTag, body |-> m.body,
                     headers |-> IF present THEN DeliveryCountHeader(m.dc)
                                            ELSE NoHeaders])
              /\ hist' = Append(hist, NoHistory(nextTag, m))
              /\ unacked' = unacked \cup {[tag |-> nextTag, msg |-> m]}
    /\ ready' = Tail(ready)
    /\ nextTag' = nextTag + 1
    /\ UNCHANGED <<configuration, handler, endpoint, pipeline, stage, given, pc, requested, topology, dlq, lost, nextId,
                   callback, published, escaped>>


\* basic_ack: the delivery is settled and the message is gone.
BrokerAck(tag) ==
    /\ unacked' = {u \in unacked : u.tag # tag}
    /\ UNCHANGED <<ready, dlq, lost>>

\* A message leaves the main queue through its dead-letter arguments.
DeadLetter(m, args) ==
    /\ IF /\ "x-dead-letter-exchange" \in DOMAIN args
          /\ "x-dead-letter-routing-key" \in DOMAIN args
          /\ cfg.dlq_name \in Route(args["x-dead-letter-exchange"],
                                    args["x-dead-letter-routing-key"])
       THEN dlq' = Append(dlq, m) /\ UNCHANGED lost
       ELSE lost' = lost \cup {m} /\ UNCHANGED dlq
    /\ UNCHANGED ready

\* basic_nack: with requeue the message goes back to the head of the main
\* queue unless its delivery count has reached the queue's x-delivery-limit;
\* then, and without requeue, it is dead-lettered.
BrokerNack(tag, requeue) ==
    IF \E u \in unacked : u.tag = tag
    THEN LET u == CHOOSE x \in unacked : x.tag = tag
             args == ArgumentsOf(cfg.name)
             exhausted == /\ "x-delivery-limit" \in DOMAIN args
                          /\ u.msg.dc >= args["x-delivery-limit"]
         IN  /\ unacked' = unacked \ {u}
             /\ IF requeue /\ ~exhausted
                THEN /\ ready' = <<u.msg>> \o ready
                     /\ UNCHANGED <<dlq, lost>>
                ELSE DeadLetter(u.msg, args)
    ELSE UNCHANGED brokerMsgs

(***************************************************************************)
(* RabbitMQBroker.reject: basic_nack(delivery_tag, requeue=True).          *)
(***************************************************************************)
reject_requeue_Drop == FALSE

reject_requeue == TRUE

\* EventPublishError(routing_key, cause): the exception keeps the routing key.
NoError == [type |-> "none", routing_key |-> ""]

EventPublishError(routing_key) ==
    [type |-> "EventPublishError", routing_key |-> routing_key]

\* One call of the worker on a collaborator, as the history keeps it: the
\* delivery tag of a settlement, the requeue flag of a nack, the routing key
\* of a publish and the error the call raised.
Call(op, tag, raised) ==
    [op |-> op, tag |-> tag, raised |-> raised, requeue |-> FALSE,
     routing_key |-> "", failed |-> FALSE, error |-> NoError]

\* The worker logs `logs` exceptions and calls reject(tag), the last statement
\* of its branch.  When the call raises, the exception leaves _on_message
\* and start_consuming.
Reject(tag, logs) ==
    \E raised \in {FALSE, TRUE} :
       /\ hist' = [hist EXCEPT ![tag].calls = Append(@,
                                  [Call("reject", tag, raised) EXCEPT
                                      !.requeue = reject_requeue]),
                               ![tag].errorLogs = @ + logs,
                               ![tag].exit = IF raised THEN "raise" ELSE "return"]
       /\ IF raised
          THEN /\ pc' = "stopped"
               /\ escaped' = "transport"
               /\ UNCHANGED brokerMsgs
          ELSE /\ pc' = "idle"
               /\ UNCHANGED escaped
               /\ BrokerNack(tag, reject_requeue)
       /\ cur' = 0
       /\ message' = NoEnvelope
       /\ result' = NoResult


(***************************************************************************)
(* Worker._on_message, one action per statement that touches a             *)
(* collaborator.                                                           *)
(***************************************************************************)
\* headers.get("x-delivery-count", 1) if headers else 1
delivery_count(headers) ==
    IF headers.dict /\ headers.present THEN headers.count ELSE 1

\* RabbitMQBroker.consume, inner on_message: what the adapter passes to the
\* worker's callback for one delivery.
on_message_NoHeaders(delivery) ==
    [body |-> delivery.body, delivery_tag |-> delivery.tag,
     headers |-> NoHeaders]

on_message(delivery) ==
    [body |-> delivery.body, delivery_tag |-> delivery.tag,
     headers |-> delivery.headers]

\* start_consuming runs one callback at a time: the next delivery is
\* dispatched when the previous callback has returned.
CanDispatch_Reentrant == pc \notin {"setup", "start", "stopped", "failed"}

CanDispatch == pc = "idle"

AfterReceive_AckEarly(count) == "ack"

\* The log statement that follows the delivery count does not branch on it.
AfterReceive_RefuseExhausted(count) ==
    IF count > cfg.max_delivery_count THEN "reject_failed" ELSE "decode"

AfterReceive(count) == "decode"

\* start_consuming dispatches the next buffered delivery to the callback,
\* which reads the delivery count and logs the attempt.
Receive ==
    /\ CanDispatch
    /\ inbox # <<>>
    /\ LET args == on_message(Head(inbox))
       IN  /\ cur' = args.delivery_tag
           /\ hist' = [hist EXCEPT
                 ![args.delivery_tag].invocations = @ + 1,
                 ![args.delivery_tag].received = args.body,
                 ![args.delivery_tag].attempt = delivery_count(args.headers)]
           /\ pc' = AfterReceive(delivery_count(args.headers))
    /\ inbox' = Tail(inbox)
    /\ UNCHANGED <<configuration, handler, endpoint, pipeline, stage, given, requested, topology, brokerMsgs, nextTag, nextId,
                   message, result, published, escaped>>

\* The first try block catches ValidationError and nothing else.
CaughtByDecode(outcome) == outcome = "ValidationError"

DecodeEnvelope ==
    /\ pc = "decode"
    /\ LET d == Decode(hist[cur].received)
       IN  IF d = "ok"
           THEN /\ message' = Envelope(hist[cur].received)
                /\ pc' = "process"
                /\ UNCHANGED <<cur, hist, escaped>>
           ELSE IF CaughtByDecode(d)
           THEN /\ pc' = "reject_invalid"
                /\ UNCHANGED <<cur, message, hist, escaped>>
           ELSE /\ pc' = "stopped"
                /\ escaped' = d
                /\ hist' = [hist EXCEPT ![cur].exit = "raise"]
                /\ cur' = 0
                /\ UNCHANGED message
    /\ UNCHANGED <<configuration, handler, endpoint, pipeline, stage, given, requested, topology, brokerMsgs, inbox, nextTag,
                   nextId, result, published>>

\* except ValidationError: logger.exception, reject, return
RejectInvalid ==
    /\ pc = "reject_invalid"
    /\ Reject(cur, 1)
    /\ UNCHANGED <<configuration, handler, endpoint, pipeline, stage, given, requested, topology, inbox, nextTag, nextId,
                   published>>

\* The statements of the second try block after handler.process, in order.
SuccessSteps_PublishFirst == <<"publish", "ack">>

SuccessSteps == <<"ack", "publish">>

AfterProcess_IgnoreFailure(outcome) == SuccessSteps[1]

AfterProcess(outcome) ==
    IF outcome = "ok" THEN SuccessSteps[1] ELSE "reject_failed"

AfterStep_AckAgain(step) ==
    IF step = "ack" /\ Len(hist[cur].calls) < 2
    THEN "ack"
    ELSE LET i == CHOOSE k \in DOMAIN SuccessSteps : SuccessSteps[k] = step
         IN  IF i < Len(SuccessSteps) THEN SuccessSteps[i + 1] ELSE "success"

AfterStep(step) ==
    LET i == CHOOSE k \in DOMAIN SuccessSteps : SuccessSteps[k] = step
    IN  IF i < Len(SuccessSteps) THEN SuccessSteps[i + 1] ELSE "success"

\* result = self._handler.process(message)
Process ==
    /\ pc = "process"
    /\ \E o \in ProcessOutcomes(stage, message) :
          /\ result' = IF o = "ok" THEN ProcessResult(stage, message)
                                   ELSE NoResult
          /\ hist' = [hist EXCEPT
                ![cur].calls = Append(@, Call("process", 0, o = "raise")),
                ![cur].processOutcome = o,
                ![cur].result = IF o = "ok" THEN ProcessResult(stage, message)
                                            ELSE NoResult]
          /\ pc' = AfterProcess(o)
    /\ UNCHANGED <<configuration, handler, endpoint, pipeline, stage, given, requested, topology, brokerMsgs, inbox, nextTag,
                   nextId, cur, message, published, escaped>>

\* self._broker.acknowledge(delivery_tag)
Acknowledge ==
    /\ pc = "ack"
    /\ \E raised \in {FALSE, TRUE} :
          /\ hist' = [hist EXCEPT
                ![cur].calls = Append(@, Call("ack", cur, raised))]
          /\ IF raised
             THEN pc' = "reject_failed" /\ UNCHANGED brokerMsgs
             ELSE pc' = AfterStep("ack") /\ BrokerAck(cur)
    /\ UNCHANGED <<configuration, handler, endpoint, pipeline, stage, given, requested, topology, inbox, nextTag, nextId,
                   callback, published, escaped>>

\* RabbitMQBroker.publish: basic_publish of the JSON body to the shared
\* exchange under the routing key; any failure becomes EventPublishError
\* carrying that routing key.
basic_publish(routing_key, payload) ==
    [exchange |-> exchange_name, routing_key |-> routing_key, body |-> payload]

publish_error_Swallowed(routing_key, failed) == NoError

publish_error(routing_key, failed) ==
    IF failed THEN EventPublishError(routing_key) ELSE NoError

\* self._broker.publish(success_routing_key, payload).  A published event
\* that the exchange routes to this stage's main queue becomes a message of
\* that queue.
Publish ==
    /\ pc = "publish"
    /\ \E failed \in {FALSE, TRUE} :
          LET key == cfg.success_routing_key
              error == publish_error(key, failed)
              raised == error.type # "none"
              event == basic_publish(key, SuccessPayload(stage, message, result))
              looped == cfg.name \in Route(event.exchange, event.routing_key)
          IN  /\ hist' = [hist EXCEPT
                    ![cur].calls = Append(@,
                       [Call("publish", 0, raised) EXCEPT
                           !.routing_key = key,
                           !.failed = failed,
                           !.error = error])]
              /\ pc' = IF raised THEN "reject_failed" ELSE AfterStep("publish")
              /\ IF failed
                 THEN UNCHANGED <<published, ready, nextId>>
                 ELSE /\ published' = Append(published,
                            [exchange |-> event.exchange,
                             routing_key |-> event.routing_key,
                             body |-> event.body,
                             tag |-> cur])
                      /\ IF looped
                         THEN /\ ready' = Append(ready,
                                     [id |-> nextId, body |-> event.body,
                                      dc |-> 0])
                              /\ nextId' = nextId + 1
                         ELSE UNCHANGED <<ready, nextId>>
    /\ UNCHANGED <<configuration, handler, endpoint, pipeline, stage, given, requested, topology, dlq, lost, unacked, inbox,
                   nextTag, callback, escaped>>

\* logger.info("Message processed successfully"); the callback returns.
Succeed ==
    /\ pc = "success"
    /\ hist' = [hist EXCEPT ![cur].exit = "return"]
    /\ pc' = "idle"
    /\ cur' = 0
    /\ message' = NoEnvelope
    /\ result' = NoResult
    /\ UNCHANGED <<configuration, handler, endpoint, pipeline, stage, given, requested, topology, brokerMsgs, inbox, nextTag,
                   nextId, published, escaped>>

\* except Exception: logger.exception, reject
RejectFailed ==
    /\ pc = "reject_failed"
    /\ Reject(cur, 1)
    /\ UNCHANGED <<configuration, handler, endpoint, pipeline, stage, given, requested, topology, inbox, nextTag, nextId,
                   published>>

(***************************************************************************)
(* The connection drops while start_consuming waits for the next delivery. *)
(* pika raises out of start_consuming; consume and Worker.start have no    *)
(* try block and no loop around it, so the exception leaves Worker.start.  *)
(* (A drop during a callback shows as the raise of the callback's next     *)
(* acknowledge, reject or publish.)                                        *)
(***************************************************************************)
AfterConsumeError_Resume == "idle"

AfterConsumeError == "stopped"

ConnectionLost ==
    /\ pc = "idle"
    /\ pc' = AfterConsumeError
    /\ escaped' = "transport"
    /\ UNCHANGED <<configuration, handler, endpoint, pipeline, stage, given, requested, topology, brokerMsgs, inbox, nextTag,
                   nextId, callback, hist, published>>

Next ==
    \/ DeclareDlx
    \/ DeclareDlq
    \/ BindDlq
    \/ DeclareExchange
    \/ DeclareQueue
    \/ BindQueue
    \/ StartConsuming
    \/ UpstreamPublish
    \/ Deliver
    \/ Receive
    \/ DecodeEnvelope
    \/ RejectInvalid
    \/ Process
    \/ Acknowledge
    \/ Publish
    \/ Succeed
    \/ RejectFailed

Spec == Init /\ [][Next]_vars

\* The transcript-analyzer's worker on a fresh broker whose connection may
\* drop.
InitConsume ==
    /\ Init
    /\ stage = "transcript-analyzer"
    /\ queues = {}

NextConsume ==
    \/ Next
    \/ ConnectionLost

SpecConsume == InitConsume /\ [][NextConsume]_vars

(***************************************************************************)
(* Process start: the dependencies module, at import, builds the adapter   *)
(* and calls its setup method by name; get_worker and Worker.start can run *)
(* only after the import returned.                                         *)
(***************************************************************************)
\* The method dependencies.py calls on _broker at module level.
SetupCalled(s) ==
    IF s = "transcript-analyzer" THEN "setup_queue_infrastructure" ELSE "setup"

\* The method of RabbitMQBroker that declares the topology.
SetupDefined(s) == "setup"

\* A call of a method the adapter does not define raises AttributeError at
\* module level: the import ends and with it the process.
AfterAttributeError_Ignored == "start"

AfterAttributeError == "failed"

SetupUnresolved ==
    /\ pc = "setup"
    /\ requested = <<>>
    /\ SetupCalled(stage) # SetupDefined(stage)
    /\ pc' = AfterAttributeError
    /\ escaped' = "setup"
    /\ UNCHANGED <<configuration, handler, endpoint, pipeline, stage, given, requested, topology,
                   brokerMsgs, inbox, nextTag, nextId, callback, hist,
                   published>>

NextStart ==
    \/ /\ SetupCalled(stage) = SetupDefined(stage)
       /\ \/ DeclareDlx
          \/ DeclareDlq
          \/ BindDlq
          \/ DeclareExchange
          \/ DeclareQueue
          \/ BindQueue
    \/ SetupUnresolved
    \/ StartConsuming
    \/ UpstreamPublish
    \/ Deliver
    \/ Receive
    \/ DecodeEnvelope
    \/ RejectInvalid
    \/ Process
    \/ Acknowledge
    \/ Publish
    \/ Succeed
    \/ RejectFailed

SpecStart == Init /\ [][NextStart]_vars

(***************************************************************************)
(* The configuration object.  QueueConfig and RabbitMQConfig are declared  *)
(* `BaseModel, frozen=True`: assigning a field of an instance raises and   *)
(* leaves the instance as it was.                                          *)
(***************************************************************************)
frozen_Mutable == FALSE

frozen == TRUE

ConfigFields ==
    {"exchange_name", "name", "queue_type", "max_delivery_count",
     "expected_routing_key", "success_routing_key", "dlq_name",
     "dlq_exchange_name", "dlq_routing_key"}

NewValue(field) == IF field = "max_delivery_count" THEN 0 ELSE "changed"

\* What the assignment does to an instance that is not frozen.
SetField(c, field) ==
    IF field = "exchange_name"
    THEN [c EXCEPT !.exchange_name = NewValue(field)]
    ELSE LET qc == c.queue_config
         IN  [c EXCEPT !.queue_config =
                 [n \in DOMAIN qc |-> IF n = field THEN NewValue(field)
                                                   ELSE qc[n]]]

\* Some code holding the shared config assigns one of its fields.
AssignField ==
    /\ assigned = "none"
    /\ \E field \in ConfigFields :
          IF frozen
          THEN assigned' = "error" /\ UNCHANGED config
          ELSE assigned' = "done" /\ config' = SetField(config, field)
    /\ UNCHANGED <<handler, endpoint, pipeline, stage, given, pc, requested,
                   topology, brokerMsgs,
                   inbox, nextTag, nextId, callback, hist, published, escaped>>

(***************************************************************************)
(* The callback as a function of the delivery it is handed.  Setup is      *)
(* done, the consumer is registered, and two deliveries of equal body are  *)
(* buffered whose headers are drawn from every shape _on_message           *)
(* distinguishes: no headers, headers without x-delivery-count, and a      *)
(* count of 1, of max_delivery_count and above it.                         *)
(***************************************************************************)
HeaderValues ==
    {NoHeaders,
     [dict |-> TRUE, present |-> FALSE, count |-> 0],
     DeliveryCountHeader(1),
     DeliveryCountHeader(max_delivery_count),
     DeliveryCountHeader(max_delivery_count + 1)}

InitHeaders ==
    /\ stage \in Stages
    /\ pc = "idle"
    /\ requested = SetupOrder
    /\ exchanges = ConfiguredTopology(queue_config(stage)).exchanges
    /\ queues = ConfiguredTopology(queue_config(stage)).queues
    /\ bindings = ConfiguredTopology(queue_config(stage)).bindings
    /\ ready = <<>>
    /\ dlq = <<>>
    /\ lost = {}
    /\ \E body \in Bodies : \E h1 \in HeaderValues : \E h2 \in HeaderValues :
          LET m1 == [id |-> 1, body |-> body,
                     dc |-> IF h1.present THEN h1.count ELSE 1]
              m2 == [id |-> 2, body |-> body,
                     dc |-> IF h2.present THEN h2.count ELSE 1]
          IN  /\ given = <<h1, h2>>
              /\ unacked = {[tag |-> 1, msg |-> m1], [tag |-> 2, msg |-> m2]}
              /\ inbox = <<[tag |-> 1, body |-> body, headers |-> h1],
                           [tag |-> 2, body |-> body, headers |-> h2]>>
              /\ hist = <<NoHistory(1, m1), NoHistory(2, m2)>>
    /\ nextTag = 3
    /\ nextId = 3
    /\ cur = 0
    /\ message = NoEnvelope
    /\ result = NoResult
    /\ published = <<>>
    /\ escaped = "none"
    /\ config = RabbitMQConfig(stage)
    /\ assigned = "none"
    /\ NoPipeline
    /\ NoHandler
    /\ NoEndpoint

NextHeaders ==
    \/ Receive
    \/ DecodeEnvelope
    \/ RejectInvalid
    \/ Process
    \/ Acknowledge
    \/ Publish
    \/ Succeed
    \/ RejectFailed

SpecHeaders == InitHeaders /\ [][NextHeaders]_vars


(***************************************************************************)
(* Vocabulary of the properties.                                           *)
(***************************************************************************)
Tags == DOMAIN hist

Ended(t) == hist[t].exit # "none"

CallsOf(t, op) == {i \in DOMAIN hist[t].calls : hist[t].calls[i].op = op}

N(t, op) == Cardinality(CallsOf(t, op))

Raised(t, op) == \E i \in CallsOf(t, op) : hist[t].calls[i].raised

EventsOf(t) == {i \in DOMAIN published : published[i].tag = t}

DeliveriesOf(id) == {t \in Tags : hist[t].id = id}

Valid(t) == Decode(hist[t].body) = "ok"

Held(q, id) == \E i \in DOMAIN q : q[i].id = id

\* C1: a valid envelope whose processing, acknowledge and publish all
\* succeed gets one acknowledge on its tag, no reject, and one publish under
\* success_routing_key whose file_name and bucket_name are the Processor
\* result's.
C1_SuccessPath ==
    \A t \in Tags :
       (/\ Ended(t) /\ Valid(t)
        /\ hist[t].processOutcome = "ok"
        /\ ~Raised(t, "ack") /\ ~Raised(t, "publish"))
       => /\ N(t, "ack") = 1
          /\ \A i \in CallsOf(t, "ack") : hist[t].calls[i].tag = t
          /\ N(t, "reject") = 0
          /\ N(t, "publish") = 1
          /\ Cardinality(EventsOf(t)) = 1
          /\ \A i \in EventsOf(t) :
                /\ published[i].routing_key = cfg.success_routing_key
                /\ published[i].body.fields["file_name"] = hist[t].result.file_name
                /\ published[i].body.fields["bucket_name"] = hist[t].result.bucket_name

C1_Witness ==
    \E t \in Tags :
       /\ stage = "audio-transcriber"
       /\ hist[t].exit = "return"
       /\ hist[t].processOutcome = "ok"
       /\ EventsOf(t) # {}
       /\ hist[t].result.file_name = Str(<<"s1", "transcription", "a">>, "txt")

\* C2: a success event is published only after acknowledge was called and
\* returned for that delivery; no published event belongs to a delivery
\* that is still unacknowledged.
C2_AckBeforePublish ==
    /\ \A t \in Tags : \A i \in CallsOf(t, "publish") :
          \E j \in CallsOf(t, "ack") : j < i /\ ~hist[t].calls[j].raised
    /\ \A i \in DOMAIN published :
          \A u \in unacked : u.tag # published[i].tag

C2_Witness ==
    \E t \in Tags : N(t, "publish") = 1 /\ EventsOf(t) # {}

\* C3: when Processor.process raises, the worker rejects the delivery tag
\* exactly once, never acknowledges it and publishes nothing.
C3_ProcessorFailure ==
    \A t \in Tags :
       (Ended(t) /\ Valid(t) /\ hist[t].processOutcome = "raise")
       => /\ N(t, "reject") = 1
          /\ \A i \in CallsOf(t, "reject") : hist[t].calls[i].tag = t
          /\ N(t, "ack") = 0
          /\ N(t, "publish") = 0
          /\ EventsOf(t) = {}

C3_Witness ==
    \E t \in Tags :
       hist[t].exit = "return" /\ hist[t].processOutcome = "raise"

\* C4: every body that fails decoding, not JSON at all or JSON failing
\* validation, is rejected and never reaches Processor.process.
C4_DecodeFailureRejected ==
    \A t \in Tags :
       (Ended(t) /\ ~Valid(t))
       => N(t, "reject") >= 1 /\ N(t, "process") = 0

\* C5: a JSON object lacking file_name or bucket_name is rejected exactly
\* once and the callback returns, with no Processor call, no publish and no
\* acknowledge.
MissingField(t) ==
    /\ hist[t].body.kind = "object"
    /\ \/ hist[t].body.fields["file_name"].t = "absent"
       \/ hist[t].body.fields["bucket_name"].t = "absent"

C5_MissingField ==
    \A t \in Tags :
       (Ended(t) /\ MissingField(t))
       => /\ N(t, "reject") = 1
          /\ N(t, "process") = 0
          /\ N(t, "publish") = 0
          /\ N(t, "ack") = 0
          /\ EventsOf(t) = {}
          /\ (~Raised(t, "reject") => hist[t].exit = "return")

C5_Witness ==
    \E t \in Tags :
       /\ hist[t].body = Obj(Absent, Bucket, Absent)
       /\ hist[t].exit = "return"
       /\ N(t, "reject") = 1

\* C6: when the callback finishes, exactly one settlement call (acknowledge
\* or reject) has been made on the delivery's tag.
C6_OneSettlement ==
    \A t \in Tags : Ended(t) => N(t, "ack") + N(t, "reject") = 1

\* C7: when publish raises after the acknowledge, the worker logs an error
\* and makes no reject on the acknowledged tag.
C7_PublishFailureKeepsAck ==
    \A t \in Tags :
       (Ended(t) /\ N(t, "ack") = 1 /\ ~Raised(t, "ack") /\ Raised(t, "publish"))
       => hist[t].errorLogs >= 1 /\ N(t, "reject") = 0

\* C8: with max_delivery_count = 3 and a Processor that raises on every
\* attempt, a message is delivered at most 3 times, and after the third
\* reject it is in the stage's dead-letter queue, not requeued.
AlwaysFails(id) ==
    \A t \in DeliveriesOf(id) : Valid(t) /\ hist[t].processOutcome \in {"none", "raise"}

C8_BoundedRetries ==
    \A id \in 1..(nextId - 1) :
       AlwaysFails(id)
       => /\ Cardinality(DeliveriesOf(id)) <= 3
          /\ \A t \in DeliveriesOf(id) :
                (hist[t].delivery = 3 /\ hist[t].exit = "return")
                => /\ Held(dlq, id)
                   /\ ~Held(ready, id)
                   /\ \A u \in unacked : u.msg.id # id

C8_Witness ==
    \E id \in 1..(nextId - 1) :
       /\ Cardinality(DeliveriesOf(id)) = 3
       /\ \A t \in DeliveriesOf(id) : hist[t].processOutcome = "raise"
       /\ Held(dlq, id)

\* C9: a message whose envelope fails validation is seen by the worker at
\* most once: after the reject it is never redelivered.
C9_InvalidNeverRetried ==
    \A id \in 1..(nextId - 1) :
       Cardinality({t \in DeliveriesOf(id) : ~Valid(t)}) <= 1

\* C10: consumption ends only on a transport failure; no message body makes
\* an exception leave _on_message.
C10_OnlyTransportStopsConsume ==
    pc = "stopped" => escaped = "transport"

\* C11: every reject the worker makes, after a decode failure and after a
\* Processor failure alike, is a negative acknowledgement that asks for
\* requeue; no message is dropped, and a message is dead-lettered only when
\* its delivery count has reached the queue's delivery limit.
C11_RejectRequeues ==
    /\ \A t \in Tags : \A i \in CallsOf(t, "reject") :
          hist[t].calls[i].requeue
    /\ lost = {}
    /\ \A i \in DOMAIN dlq : dlq[i].dc >= cfg.max_delivery_count

C11_Witness ==
    \E t1 \in Tags : \E t2 \in Tags :
       /\ ~Valid(t1) /\ hist[t1].exit = "return" /\ N(t1, "reject") = 1
       /\ hist[t2].processOutcome = "raise" /\ hist[t2].exit = "return"
       /\ N(t2, "reject") = 1
       /\ \A t \in {t1, t2} :
             /\ hist[t].delivery < cfg.max_delivery_count
             /\ \/ Held(ready, hist[t].id)
                \/ \E r \in DeliveriesOf(hist[t].id) : r > t

\* C12: consume invokes the callback once for each delivery, with that
\* delivery's body, tag and headers, in the order of delivery: the deliveries
\* already dispatched are the first ones, each dispatched once, and the
\* buffered ones follow in order, none skipped.
Started(t) == hist[t].invocations > 0

C12_CallbackPerDelivery ==
    LET k == Cardinality({t \in Tags : Started(t)})
    IN  /\ \A t \in Tags :
              /\ hist[t].invocations <= 1
              /\ Started(t) <=> t <= k
              /\ Started(t) => /\ hist[t].received = hist[t].body
                               /\ hist[t].attempt = hist[t].delivery
        /\ Len(inbox) = Cardinality(Tags) - k
        /\ \A i \in DOMAIN inbox :
              /\ inbox[i].tag = k + i
              /\ inbox[i].body = hist[k + i].body

C12_Witness ==
    /\ \A t \in 1..3 : t \in Tags
    /\ Ended(1)
    /\ Ended(2)
    /\ hist[2].id = hist[1].id
    /\ hist[2].attempt = 2
    /\ hist[3].id # hist[1].id
    /\ inbox # <<>>

\* C13: callbacks run one at a time: a callback starts only when every
\* earlier one has finished, so at most one delivery is being handled and
\* at most one Processor invocation is in progress.
InProgress == {t \in Tags : Started(t) /\ ~Ended(t)}

C13_OneAtATime ==
    /\ Cardinality(InProgress) <= 1
    /\ InProgress = (IF cur = 0 THEN {} ELSE {cur})
    /\ \A t \in Tags : Started(t) => \A s \in 1..(t - 1) : Ended(s)
    /\ pc \in {"decode", "process", "ack", "publish", "success",
               "reject_invalid", "reject_failed"} <=> cur # 0

C13_Witness ==
    /\ pc = "process"
    /\ cur = 2
    /\ Ended(1)
    /\ Len(inbox) >= 1

\* C14: setup requests its declarations in this order: dead-letter exchange
\* (direct, durable), dead-letter queue (durable), its binding on
\* dlq_routing_key, the shared exchange (topic, durable), the main queue
\* (durable), its binding on expected_routing_key; a binding is requested
\* only after its queue and its exchange.
Granted(i) ==
    i <= Len(requested) /\ ~(escaped = "setup" /\ i = Len(requested))

Before(a, b) ==
    \A i \in DOMAIN requested :
       requested[i] = b => \E j \in 1..(i - 1) : requested[j] = a

C14_SetupOrder ==
    LET order == <<"dlx", "dlq", "dlq_binding", "exchange", "queue", "binding">>
    IN  /\ Len(requested) <= 6
        /\ \A i \in DOMAIN requested : requested[i] = order[i]
        /\ Before("dlx", "dlq_binding") /\ Before("dlq", "dlq_binding")
        /\ Before("exchange", "binding") /\ Before("queue", "binding")
        /\ Granted(1) =>
              [exchange |-> cfg.dlq_exchange_name, exchange_type |-> "direct",
               durable |-> TRUE] \in exchanges
        /\ Granted(2) =>
              \E q \in queues : q.queue = cfg.dlq_name /\ q.durable
        /\ Granted(3) =>
              [queue |-> cfg.dlq_name, exchange |-> cfg.dlq_exchange_name,
               routing_key |-> cfg.dlq_routing_key] \in bindings
        /\ Granted(4) =>
              [exchange |-> "events", exchange_type |-> "topic",
               durable |-> TRUE] \in exchanges
        /\ Granted(5) =>
              \E q \in queues : q.queue = cfg.name /\ q.durable
        /\ Granted(6) =>
              [queue |-> cfg.name, exchange |-> "events",
               routing_key |-> cfg.expected_routing_key] \in bindings

C14_Witness ==
    /\ requested = <<"dlx", "dlq", "dlq_binding">>
    /\ Cardinality(queues) = 1
    /\ Cardinality(bindings) = 1
    /\ escaped = "none"

\* C15: setup is idempotent: run against a broker whose topology already is
\* the configured one, no declaration raises and exchanges, queues and
\* bindings stay as they were, with no binding added.
C15_SetupIdempotent ==
    [][(pc = "setup" /\ topology = <<ConfiguredTopology(cfg).exchanges,
                                      ConfiguredTopology(cfg).queues,
                                      ConfiguredTopology(cfg).bindings>>)
       => (topology' = topology /\ pc' # "failed" /\ escaped' = "none")]_vars

C15_Witness ==
    /\ pc = "setup"
    /\ Len(requested) = 3
    /\ Cardinality(queues) = 2
    /\ Cardinality(bindings) = 2
    /\ Cardinality(exchanges) = 2

\* C16: the main queue is declared with exactly four arguments: x-queue-type
\* = queue_type, x-delivery-limit = max_delivery_count,
\* x-dead-letter-exchange = dlq_exchange_name, x-dead-letter-routing-key =
\* dlq_routing_key.
C16_MainQueueArguments ==
    (Granted(5) /\ requested[5] = "queue")
    => LET args == ArgumentsOf(cfg.name)
       IN  /\ DOMAIN args = {"x-queue-type", "x-delivery-limit",
                             "x-dead-letter-exchange",
                             "x-dead-letter-routing-key"}
           /\ args["x-queue-type"] = cfg.queue_type
           /\ args["x-delivery-limit"] = cfg.max_delivery_count
           /\ args["x-dead-letter-exchange"] = cfg.dlq_exchange_name
           /\ args["x-dead-letter-routing-key"] = cfg.dlq_routing_key

C16_Witness ==
    /\ requested = <<"dlx", "dlq", "dlq_binding", "exchange", "queue">>
    /\ escaped = "none"
    /\ bindings = {DlqBinding(cfg)}
    /\ ArgumentsOf(cfg.name)["x-delivery-limit"] = 3

\* C17: when a declaration conflicts with what the broker holds, setup
\* fails and the error ends startup: the declaration is not repeated, no
\* later one is requested and the process never consumes.
ConflictingQueue ==
    \E q \in queues :
       q.queue = cfg.name /\ q \notin ConfiguredTopology(cfg).queues

C17_ConflictEndsStartup ==
    /\ ConflictingQueue
       => /\ pc \in {"setup", "failed"}
          /\ hist = <<>> /\ inbox = <<>> /\ unacked = {}
          /\ Len(requested) <= 5
    /\ escaped = "setup"
       => /\ pc = "failed"
          /\ hist = <<>> /\ inbox = <<>> /\ unacked = {}

C17_Witness ==
    /\ ConflictingQueue
    /\ pc = "failed"
    /\ escaped = "setup"
    /\ requested = <<"dlx", "dlq", "dlq_binding", "exchange", "queue">>

\* C18: publish sends the JSON body to the shared exchange under the routing
\* key it was given; when the send fails it raises EventPublishError whose
\* routing_key is that key, nothing is published, and the caller does not
\* continue as after a successful publish.
C18_PublishOrRaise ==
    \A t \in Tags : \A i \in CallsOf(t, "publish") :
       LET c == hist[t].calls[i]
       IN  /\ c.routing_key = cfg.success_routing_key
           /\ c.failed
              => /\ c.raised
                 /\ c.error.type = "EventPublishError"
                 /\ c.error.routing_key = c.routing_key
                 /\ EventsOf(t) = {}
                 /\ i < Len(hist[t].calls) => hist[t].calls[i + 1].op = "reject"
                 /\ Ended(t) => i < Len(hist[t].calls)
           /\ ~c.failed
              => /\ ~c.raised
                 /\ c.error.type = "none"
                 /\ Cardinality(EventsOf(t)) = 1
                 /\ \A e \in EventsOf(t) :
                       /\ published[e].exchange = "events"
                       /\ published[e].routing_key = c.routing_key
                       /\ published[e].body =
                             Obj(hist[t].result.file_name,
                                 hist[t].result.bucket_name,
                                 hist[t].result.content_type)

C18_Witness ==
    \E t \in Tags : \E u \in Tags :
       /\ Ended(t) /\ Raised(t, "publish")
       /\ \E i \in CallsOf(t, "publish") :
             hist[t].calls[i].error.routing_key = "audio.transcription.completed"
       /\ Ended(u) /\ N(u, "publish") = 1 /\ ~Raised(u, "publish")
       /\ EventsOf(u) # {}

\* C20: in every stage's QueueConfig expected_routing_key differs from
\* success_routing_key, so no success event a stage publishes is routed into
\* that stage's own main queue.
C20_NoSelfTrigger ==
    /\ \A s \in ConfiguredStages :
          queue_config(s).expected_routing_key
             # queue_config(s).success_routing_key
    /\ \A i \in DOMAIN published :
          cfg.name \notin Route(published[i].exchange, published[i].routing_key)
    /\ nextId - 1 <= MaxMsgs

C20_Witness ==
    /\ stage = "transcript-analyzer"
    /\ Len(published) >= 2
    /\ \A i \in DOMAIN published :
          published[i].routing_key = "transcript.analysis.completed"
    /\ Route("events", "audio.transcription.completed")
          = {"transcript_analysis_queue"}

\* C19: the delivery count is read for the log only.  Two deliveries of the
\* same body that differ in their headers make the same calls as long as the
\* collaborators answer alike; a delivery is rejected only after a failure,
\* whatever its count; and an absent count reads as attempt 1.
SameCalls(t1, t2, n) ==
    \A i \in 1..n :
       /\ i <= Len(hist[t1].calls) /\ i <= Len(hist[t2].calls)
       /\ hist[t1].calls[i].op = hist[t2].calls[i].op
       /\ hist[t1].calls[i].raised = hist[t2].calls[i].raised

C19_HeadersOnlyObserved ==
    /\ \A t1 \in DOMAIN given : \A t2 \in DOMAIN given :
          (/\ Ended(t1) /\ Ended(t2)
           /\ hist[t1].body = hist[t2].body
           /\ given[t1] # given[t2])
          => /\ hist[t1].exit = hist[t2].exit
                \/ Raised(t1, "reject") \/ Raised(t2, "reject")
             /\ \A n \in 0..4 :
                   SameCalls(t1, t2, n)
                   => /\ Len(hist[t1].calls) > n <=> Len(hist[t2].calls) > n
                      /\ Len(hist[t1].calls) > n
                         => hist[t1].calls[n + 1].op = hist[t2].calls[n + 1].op
    /\ \A t \in DOMAIN given :
          /\ N(t, "reject") >= 1
             => \/ ~Valid(t)
                \/ hist[t].processOutcome = "raise"
                \/ Raised(t, "ack") \/ Raised(t, "publish")
          /\ Started(t)
             => hist[t].attempt =
                   IF given[t].dict /\ given[t].present THEN given[t].count
                                                         ELSE 1

C19_Witness ==
    /\ given = <<NoHeaders, DeliveryCountHeader(max_delivery_count + 1)>>
    /\ Ended(1) /\ Ended(2)
    /\ hist[1].attempt = 1 /\ hist[2].attempt = 4
    /\ N(1, "publish") = 1 /\ N(2, "publish") = 1
    /\ Len(published) = 2

\* C22: envelope decoding tolerates unknown fields: a JSON object with string
\* file_name and bucket_name, whatever else it carries (content_type for
\* one), passes decoding and is handed to Processor.process with exactly
\* those two fields; it is never rejected as invalid, and a reject of it
\* follows a failure of process, acknowledge or publish.
WellFormed(t) ==
    /\ hist[t].body.kind = "object"
    /\ hist[t].body.fields["file_name"].t = "str"
    /\ hist[t].body.fields["bucket_name"].t = "str"

C22_UnknownFieldsTolerated ==
    \A t \in Tags :
       (Started(t) /\ WellFormed(t) /\ ~(cur = t /\ pc = "decode"))
       => /\ (cur = t /\ pc = "process")
                => /\ N(t, "process") = 0
                   /\ message = [file_name |-> hist[t].body.fields["file_name"],
                                 bucket_name |-> hist[t].body.fields["bucket_name"]]
          /\ ~(cur = t /\ pc = "process") => N(t, "process") = 1
          /\ cur = t => pc # "reject_invalid"
          /\ N(t, "reject") >= 1
                => \/ hist[t].processOutcome = "raise"
                   \/ Raised(t, "ack")
                   \/ Raised(t, "publish")

C22_Witness ==
    \E t \in Tags :
       /\ WellFormed(t)
       /\ hist[t].body.fields["content_type"].t = "str"
       /\ N(t, "process") = 1
       /\ hist[t].processOutcome = "ok"
       /\ hist[t].exit = "return"
       /\ N(t, "reject") = 0

\* C23: over any sequence of deliveries, redelivery of a message under a new
\* delivery tag included, acknowledge is called at most once for any single
\* delivery tag: a callback acknowledges at most once, and only its own tag.
C23_AckAtMostOncePerTag ==
    \A t \in Tags :
       /\ N(t, "ack") <= 1
       /\ \A i \in CallsOf(t, "ack") : hist[t].calls[i].tag = t
       /\ \A r \in Tags : \A i \in CallsOf(r, "ack") :
             hist[r].calls[i].tag = t => r = t

C23_Witness ==
    \E t1 \in Tags : \E t2 \in Tags :
       /\ t1 < t2
       /\ hist[t1].id = hist[t2].id
       /\ Valid(t1)
       /\ hist[t1].processOutcome = "ok"
       /\ hist[t2].processOutcome = "ok"
       /\ N(t1, "ack") = 1
       /\ N(t2, "ack") = 1
       /\ ~Raised(t2, "ack")
       /\ Ended(t2)

\* C24: connection loss during consume is fatal: the error ends consume and
\* leaves Worker.start, and from then on nothing in the process moves: no
\* callback is invoked, no declaration of setup is requested again, no
\* delivery is taken or settled and consumption never resumes.
C24_ConnectionLossFatal ==
    [][/\ escaped' = "transport" => pc' = "stopped"
       /\ (pc = "stopped" /\ escaped = "transport")
             => /\ pc' = "stopped"
                /\ escaped' = "transport"
                /\ UNCHANGED <<requested, topology, hist, cur, message, result,
                               inbox, unacked, dlq, lost, nextTag,
                               published>>]_vars

C24_Witness ==
    /\ pc = "stopped"
    /\ escaped = "transport"
    /\ Tags # {}
    /\ \A t \in Tags : Started(t) => hist[t].exit = "return"
    /\ inbox # <<>>
    /\ ready # <<>>

\* C27: at-least-once, no loss: acknowledge is called for a delivery only
\* after Processor.process has returned normally for that delivery; a
\* delivery whose processing failed, or that consumption stopped before or
\* during its callback, is never acknowledged, and while no delivery of a
\* message has been acknowledged the message is still with the broker: ready,
\* unsettled on the channel, or dead-lettered.
Acked(t) == \E i \in CallsOf(t, "ack") : ~hist[t].calls[i].raised

WithBroker(id) ==
    \/ Held(ready, id)
    \/ Held(dlq, id)
    \/ \E u \in unacked : u.msg.id = id

C27_AtLeastOnce ==
    /\ \A t \in Tags : \A i \in CallsOf(t, "ack") :
          \E j \in CallsOf(t, "process") : j < i /\ ~hist[t].calls[j].raised
    /\ \A t \in Tags :
          (\/ hist[t].processOutcome # "ok"
           \/ ~Started(t))
          => N(t, "ack") = 0
    /\ \A id \in 1..(nextId - 1) :
          (\A t \in DeliveriesOf(id) : ~Acked(t)) => WithBroker(id)

C27_Witness ==
    \E t1 \in Tags : \E t2 \in Tags : \E t3 \in Tags :
       /\ hist[t1].processOutcome = "raise"
       /\ hist[t1].exit = "return"
       /\ hist[t2].id = hist[t1].id
       /\ t2 > t1
       /\ Acked(t2)
       /\ pc = "stopped"
       /\ ~Started(t3)
       /\ \E u \in unacked : u.tag = t3

\* C28: no prefetch pipelining: the channel holds at most one delivered but
\* unsettled message at any time; the broker hands over delivery k+1 only
\* when delivery k has been acknowledged or rejected.
C28_OneUnsettled ==
    Cardinality(unacked) <= 1

(***************************************************************************)
(* The operations of one process next to an assignment to its config:      *)
(* setup from a fresh start, and the callback on the buffered deliveries.  *)
(***************************************************************************)
InitConfig == Init \/ InitHeaders

NextConfig ==
    \/ DeclareDlx
    \/ DeclareDlq
    \/ BindDlq
    \/ DeclareExchange
    \/ DeclareQueue
    \/ BindQueue
    \/ StartConsuming
    \/ Receive
    \/ DecodeEnvelope
    \/ RejectInvalid
    \/ Process
    \/ Acknowledge
    \/ Publish
    \/ Succeed
    \/ RejectFailed
    \/ AssignField

SpecConfig == InitConfig /\ [][NextConfig]_vars

\* C26: the configuration is read-only after construction: no operation of
\* the worker or the adapter (setup, consume, publish, acknowledge, reject,
\* message handling) changes a field of it, it stays the configuration the
\* stage was constructed with, and an attempt to assign a field fails.
C26_ConfigReadOnly ==
    [][/\ config' = config
       /\ config' = RabbitMQConfig(stage)
       /\ assigned' # assigned => assigned' = "error"]_vars

C26_Witness ==
    /\ assigned = "error"
    /\ config = RabbitMQConfig(stage)
    /\ \E t \in Tags : N(t, "ack") = 1 /\ N(t, "publish") = 1 /\ Ended(t)
    /\ \E t \in Tags : N(t, "reject") = 1 /\ Ended(t)

(***************************************************************************)
(* The pipeline: the upload service and the three stages on one broker.    *)
(* Each service declares its topology when it starts; a callback is one    *)
(* step.  The variables of the single worker above are not used here; the  *)
(* actions take the stage as a parameter.  The broker starts empty, or     *)
(* with the audio-transcriber's durable queue holding one message.         *)
(***************************************************************************)
MaxUploads == 2       \* sessions uploaded
MaxDeliveries == 4    \* deliveries of one message that are followed

Services == ConfiguredStages \cup {"session-upload"}

\* upload_session: object_name is
\* {year}/{month}/{day}/{session_id}/video/{first}-{last}-{date}{ext}
VideoName ==
    Str(<<"2025", "01", "15", "sid", "video", "john-doe-2025-01-15">>, "mp4")

SessionAudioName ==
    Str(<<"2025", "01", "15", "sid", "audio", "john-doe-2025-01-15">>, "wav")

\* The payload upload_session publishes under video.upload.completed.
UploadPayload_ObjectName(object_name) ==
    Obj(Absent, Str(<<"sessions">>, ""), Str(<<"video", "mp4">>, ""))

UploadPayload(object_name) ==
    Obj(object_name, Str(<<"sessions">>, ""), Str(<<"video", "mp4">>, ""))

\* process_video: data = json.loads(body); data["file_name"];
\* data["bucket_name"], outside any try block and without a type check.
ReadVideoMessage(body) ==
    IF body.kind # "object" THEN "JSONDecodeError"
    ELSE IF \/ body.fields["file_name"].t = "absent"
            \/ body.fields["bucket_name"].t = "absent"
    THEN "KeyError"
    ELSE "ok"

\* What RabbitMQBroker.setup leaves declared.
SetupTopology(qc) ==
    [exchanges |-> {DlxDeclaration(qc), ExchangeDeclaration},
     queues |-> {DlqDeclaration(qc), QueueDeclaration(qc)},
     bindings |-> {DlqBinding(qc), QueueBinding(qc)}]

\* What a service declares at start: the upload service the shared exchange,
\* a worker stage what setup declares, the audio-extractor what its adapter
\* or get_rabbit_channel of its main module declares.
StartTopologies(s) ==
    IF s = "session-upload"
    THEN {[exchanges |-> {ExchangeDeclaration}, queues |-> {}, bindings |-> {}]}
    ELSE IF s = "audio-extractor"
    THEN {SetupTopology(queue_config(s)), LegacyTopology(queue_config(s))}
    ELSE {SetupTopology(queue_config(s))}

ServiceStart(s) ==
    /\ s \notin running
    /\ \E T \in StartTopologies(s) :
          /\ exchanges' = exchanges \cup T.exchanges
          /\ queues' = queues \cup T.queues
          /\ bindings' = bindings \cup T.bindings
    /\ running' = running \cup {s}
    /\ UNCHANGED <<configuration, handler, endpoint, stage, given, pc, requested, brokerMsgs,
                   inbox, nextTag, nextId, callback, hist, published, escaped,
                   held, events, work, uploads>>

\* The exchange hands a message to every queue in `targets`.
Enqueue(h, targets, m) ==
    [q \in QueueNames |-> IF q \in targets THEN Append(h[q], m) ELSE h[q]]

PipelineMessage(origin, body) ==
    [origin |-> origin, body |-> body, dc |-> 0, from |-> ""]

Event(by, routing_key, body, origin, file_name, bucket_name) ==
    [by |-> by, routing_key |-> routing_key, body |-> body, origin |-> origin,
     file_name |-> file_name, bucket_name |-> bucket_name,
     up |-> ConfiguredStages \subseteq running]

\* upload_session: a StorageUploadError becomes HTTP 500 and the function
\* is left.
AfterStorageError_Continue == "publish"

AfterStorageError == "raise"

Response(request, status_code, detail) ==
    [request |-> request, status_code |-> status_code, detail |-> detail]

\* upload_session: a file that is not video/mp4 is refused with 422; the
\* video is stored, and a failing upload becomes HTTP 500; then
\* video.upload.completed is published, and a failing publish becomes HTTP
\* 500; otherwise the response is the UploadResponse (200).
Upload ==
    /\ "session-upload" \in running
    /\ uploads < MaxUploads
    /\ uploads' = uploads + 1
    /\ \E content_type \in {"video/mp4", "text/plain"} :
       \E storageFails \in {FALSE, TRUE} :
       \E failed \in {FALSE, TRUE} :
          LET request == uploads + 1
              accepted == content_type = "video/mp4"
              stored == accepted /\ ~storageFails
              goesOn == stored \/ (accepted /\ AfterStorageError = "publish")
              body == UploadPayload(VideoName)
              key == "video.upload.completed"
          IN  \* an input that is not consulted has one value
              /\ (~accepted => ~storageFails)
              /\ (~goesOn => ~failed)
              /\ objects' = IF stored
                            THEN objects \cup {[bucket_name |-> "sessions",
                                                object_name |-> VideoName,
                                                request |-> request]}
                            ELSE objects
              /\ IF goesOn /\ ~failed
                 THEN /\ events' = events \cup
                            {Event("session-upload", key, body, request,
                                   VideoName, Str(<<"sessions">>, ""))}
                      /\ held' = Enqueue(held, Route(exchange_name, key),
                                         PipelineMessage(request, body))
                 ELSE UNCHANGED <<events, held>>
              /\ responses' = Append(responses,
                    IF ~accepted
                    THEN Response(request, 422, "File must be a video/mp4 file")
                    ELSE IF ~goesOn
                    THEN Response(request, 500, "File upload failed")
                    ELSE IF failed
                    THEN Response(request, 500, "Event publish failed")
                    ELSE Response(request, 200,
                                  "Session uploaded successfully, processing started"))
    /\ UNCHANGED <<configuration, handler, stage, given, pc, requested,
                   topology, brokerMsgs, inbox, nextTag, nextId, callback,
                   hist, published, escaped, running, work>>

\* A message an earlier producer of audio.extraction.completed left in the
\* durable queue of the audio-transcriber.
LeftoverMessage ==
    [origin |-> 0,
     body |-> Obj(SessionAudioName, Bucket, Str(<<"audio", "wav">>, "")),
     dc |-> 0, from |-> ""]

\* basic_nack(requeue=True) of the head of queue q, delivered as m: back to
\* the head of q, or, the delivery limit of q reached, out through the
\* dead-letter arguments of q to the queues the dead-letter exchange routes
\* to.
Nacked(h, q, m) ==
    LET args == ArgumentsOf(q)
        exhausted == /\ "x-delivery-limit" \in DOMAIN args
                     /\ m.dc >= args["x-delivery-limit"]
        rest == [h EXCEPT ![q] = Tail(@)]
    IN  IF ~exhausted
        THEN [rest EXCEPT ![q] = <<m>> \o @]
        ELSE IF /\ "x-dead-letter-exchange" \in DOMAIN args
                /\ "x-dead-letter-routing-key" \in DOMAIN args
        THEN Enqueue(rest,
                     Route(args["x-dead-letter-exchange"],
                           args["x-dead-letter-routing-key"]),
                     [m EXCEPT !.from = q])
        ELSE rest

Work(s, m, envelope, outcome, event) ==
    [stage |-> s, origin |-> m.origin, message |-> envelope,
     outcome |-> outcome, published |-> event]

\* Worker._on_message of stage s on the head of its main queue.
ConsumeWorker(s) ==
    /\ s \in running
    /\ LET q == queue_config(s).name
       IN  /\ held[q] # <<>>
           /\ Head(held[q]).dc < MaxDeliveries
           /\ LET m == [Head(held[q]) EXCEPT !.dc = @ + 1]
                  d == Decode(m.body)
                  msg == Envelope(m.body)
              IN  IF d = "JSONDecodeError"
                  THEN /\ running' = running \ {s}
                       /\ work' = work \cup {Work(s, m, NoEnvelope, d, FALSE)}
                       /\ UNCHANGED <<held, events>>
                  ELSE IF d = "ValidationError"
                  THEN /\ held' = Nacked(held, q, m)
                       /\ work' = work \cup {Work(s, m, NoEnvelope, d, FALSE)}
                       /\ UNCHANGED <<running, events>>
                  ELSE \E o \in ProcessOutcomes(s, msg) :
                       \E failed \in {FALSE, TRUE} :
                          /\ o = "raise" => ~failed
                          /\ work' = work \cup
                                {Work(s, m, msg, o, o = "ok" /\ ~failed)}
                          /\ UNCHANGED running
                          /\ IF o = "raise"
                             THEN /\ held' = Nacked(held, q, m)
                                  /\ UNCHANGED events
                             ELSE IF failed
                             THEN /\ held' = [held EXCEPT ![q] = Tail(@)]
                                  /\ UNCHANGED events
                             ELSE LET res == ProcessResult(s, msg)
                                      key == queue_config(s).success_routing_key
                                      body == SuccessPayload(s, msg, res)
                                  IN  /\ events' = events \cup
                                            {Event(s, key, body, m.origin,
                                                   res.file_name,
                                                   res.bucket_name)}
                                      /\ held' = Enqueue(
                                            [held EXCEPT ![q] = Tail(@)],
                                            Route(exchange_name, key),
                                            PipelineMessage(m.origin, body))
    /\ UNCHANGED <<configuration, handler, endpoint, stage, given, pc, requested, topology,
                   brokerMsgs, inbox, nextTag, nextId, callback, hist,
                   published, escaped, uploads>>

\* process_video of the audio-extractor on the head of its queue: an
\* unreadable body ends the consumer; a failed download or extraction is
\* nacked; after a successful extraction the delivery is acknowledged and
\* the function returns (the publish of audio.extraction.completed that
\* followed the acknowledge is commented out).
ConsumeExtractor ==
    /\ "audio-extractor" \in running
    /\ LET s == "audio-extractor"
           q == queue_config(s).name
       IN  /\ held[q] # <<>>
           /\ Head(held[q]).dc < MaxDeliveries
           /\ LET m == [Head(held[q]) EXCEPT !.dc = @ + 1]
                  r == ReadVideoMessage(m.body)
                  msg == Envelope(m.body)
              IN  IF r # "ok"
                  THEN /\ running' = running \ {s}
                       /\ work' = work \cup {Work(s, m, NoEnvelope, r, FALSE)}
                       /\ UNCHANGED held
                  ELSE \E o \in {"ok", "raise"} :
                          /\ work' = work \cup {Work(s, m, msg, o, FALSE)}
                          /\ UNCHANGED running
                          /\ held' = IF o = "raise"
                                     THEN Nacked(held, q, m)
                                     ELSE [held EXCEPT ![q] = Tail(@)]
    /\ UNCHANGED <<configuration, handler, endpoint, stage, given, pc, requested, topology,
                   brokerMsgs, inbox, nextTag, nextId, callback, hist,
                   published, escaped, events, uploads>>

InitPipeline ==
    /\ stage = "transcript-analyzer"
    /\ given = <<>>
    /\ pc = "setup"
    /\ requested = <<>>
    /\ \E leftover \in {FALSE, TRUE} :
          LET T == IF leftover
                   THEN SetupTopology(queue_config("audio-transcriber"))
                   ELSE EmptyTopology
              q == queue_config("audio-transcriber").name
          IN  /\ exchanges = T.exchanges
              /\ queues = T.queues
              /\ bindings = T.bindings
              /\ held = [n \in QueueNames |->
                            IF leftover /\ n = q THEN <<LeftoverMessage>>
                                                ELSE <<>>]
    /\ ready = <<>>
    /\ dlq = <<>>
    /\ lost = {}
    /\ unacked = {}
    /\ inbox = <<>>
    /\ nextTag = 1
    /\ nextId = 1
    /\ cur = 0
    /\ message = NoEnvelope
    /\ result = NoResult
    /\ hist = <<>>
    /\ published = <<>>
    /\ escaped = "none"
    /\ config = RabbitMQConfig(stage)
    /\ assigned = "none"
    /\ running = {}
    /\ events = {}
    /\ work = {}
    /\ uploads = 0
    /\ NoHandler
    /\ NoEndpoint

NextPipeline ==
    \/ \E s \in Services : ServiceStart(s)
    \/ Upload
    \/ \E s \in Stages : ConsumeWorker(s)
    \/ ConsumeExtractor

SpecPipeline == InitPipeline /\ [][NextPipeline]_vars

\* C21: dlq_routing_key is unique per stage: on the shared dead-letter
\* exchange, once every stage has declared its topology, the dead-letter
\* arguments of a stage's main queue route to that stage's dead-letter queue
\* and to no other; and a dead-letter queue only ever holds messages that
\* left its own stage's main queue.
C21_DlqRoutingUnique ==
    /\ \A s1 \in ConfiguredStages : \A s2 \in ConfiguredStages :
          s1 # s2 =>
             queue_config(s1).dlq_routing_key # queue_config(s2).dlq_routing_key
    /\ ConfiguredStages \subseteq running
          => \A s \in ConfiguredStages :
                LET args == ArgumentsOf(queue_config(s).name)
                IN  "x-dead-letter-exchange" \in DOMAIN args
                       => Route(args["x-dead-letter-exchange"],
                                args["x-dead-letter-routing-key"])
                             = {queue_config(s).dlq_name}
    /\ \A s \in ConfiguredStages :
          \A i \in DOMAIN held[queue_config(s).dlq_name] :
             held[queue_config(s).dlq_name][i].from = queue_config(s).name

C21_Witness ==
    /\ ConfiguredStages \subseteq running
    /\ held[queue_config("audio-extractor").dlq_name] # <<>>
    /\ held[queue_config("audio-transcriber").dlq_name] # <<>>
    /\ \A s \in ConfiguredStages :
          "x-dead-letter-exchange" \in DOMAIN ArgumentsOf(queue_config(s).name)

\* C25: producer and consumer schemas agree along the pipeline: the body of
\* every event a stage or the upload service publishes decodes as a valid
\* envelope whose file_name and bucket_name are the values the producer
\* put in, and the stage that consumes it reads exactly those values and
\* never fails to decode it.
ProducedFor(w) ==
    {e \in events : /\ e.origin = w.origin
                    /\ e.routing_key = queue_config(w.stage).expected_routing_key}

C25_SchemasAgree ==
    /\ \A e \in events :
          /\ json_loads(e.body) = "ok"
          /\ model_validate(e.body) = "ok"
          /\ ReadVideoMessage(e.body) = "ok"
          /\ Envelope(e.body).file_name = e.file_name
          /\ Envelope(e.body).bucket_name = e.bucket_name
          /\ e.file_name.t = "str"
          /\ e.bucket_name.t = "str"
    /\ \A w \in work :
          /\ w.outcome \in {"ok", "raise"}
          /\ ~(w.stage = "audio-transcriber" /\ w.origin = LeftoverMessage.origin)
                => /\ ProducedFor(w) # {}
                   /\ \A e \in ProducedFor(w) :
                         /\ w.message.file_name = e.file_name
                         /\ w.message.bucket_name = e.bucket_name

C25_Witness ==
    /\ \E w \in work :
          /\ w.stage = "audio-extractor"
          /\ w.outcome = "ok"
          /\ w.message.file_name = VideoName
    /\ \E w \in work :
          /\ w.stage = "transcript-analyzer"
          /\ w.outcome = "ok"
          /\ w.published
          /\ w.message.file_name = _derive_path(SessionAudioName)
    /\ \E e \in events : e.routing_key = "transcript.analysis.completed"

\* The stages in the order a session passes through them.
StageOrder == <<"audio-extractor", "audio-transcriber", "transcript-analyzer">>

\* The queues an event reaches once every stage has declared its topology.
ReachedBy(e) == Route(exchange_name, e.routing_key)

SpecPipelineFair ==
    /\ InitPipeline
    /\ [][NextPipeline]_vars
    /\ WF_vars(ConsumeExtractor)
    /\ \A s \in Stages : WF_vars(ConsumeWorker(s))

\* C30: end-to-end progress: a video.upload.completed event published while
\* every stage is up leads to a transcript.analysis.completed event for the
\* same session, unless a Processor or a publish failed for that session.
Routed(id) ==
    \E e \in events : /\ e.origin = id
                      /\ e.routing_key = "video.upload.completed"
                      /\ e.up

Completed(id) ==
    \E e \in events : /\ e.origin = id
                      /\ e.routing_key = "transcript.analysis.completed"

Failed(id) ==
    \E w \in work : /\ w.origin = id
                    /\ \/ w.outcome # "ok"
                       \/ (w.stage \in Stages /\ ~w.published)

C30_EndToEndProgress ==
    \A id \in 1..MaxUploads : Routed(id) ~> (Completed(id) \/ Failed(id))

(***************************************************************************)
(* The single worker with its scheduling: the process runs its statements  *)
(* one after the other (setup, start_consuming, each step of a callback),  *)
(* and the broker pushes a ready message to the registered consumer.       *)
(* Nothing obliges a producer to publish or a connection to drop.          *)
(***************************************************************************)
ProcessStep ==
    \/ DeclareDlx
    \/ DeclareDlq
    \/ BindDlq
    \/ DeclareExchange
    \/ DeclareQueue
    \/ BindQueue
    \/ StartConsuming
    \/ Receive
    \/ DecodeEnvelope
    \/ RejectInvalid
    \/ Process
    \/ Acknowledge
    \/ Publish
    \/ Succeed
    \/ RejectFailed

SpecLive ==
    /\ Init
    /\ [][Next]_vars
    /\ WF_vars(ProcessStep)
    /\ WF_vars(Deliver)

\* C29: every message routed to the stage's main queue eventually reaches a
\* terminal state, acknowledged or held in the stage's dead-letter queue,
\* as long as the broker connection holds (no transport error) and the
\* worker came up; the deliveries followed are MaxTag.
Terminal(id) ==
    \/ \E t \in DeliveriesOf(id) : Acked(t)
    \/ Held(dlq, id)

C29_EveryMessageTerminates ==
    \A id \in 1..MaxMsgs :
       (id < nextId)
          ~> \/ Terminal(id)
             \/ escaped = "transport"
             \/ pc = "failed"
             \/ nextTag > MaxTag

\* The process has entered consume (basic_consume was issued).
Consuming == pc \notin {"setup", "start", "failed"}

\* C32: the topology is declared before consumption begins: the process
\* consumes, and the broker delivers to it, only after every declaration of
\* setup was requested and granted in this process, so that the exchanges,
\* queues and bindings of the configuration exist.
C32_SetupBeforeConsume ==
    (Consuming \/ hist # <<>> \/ inbox # <<>> \/ unacked # {})
       => /\ Consuming
          /\ requested = SetupOrder
          /\ escaped # "setup"
          /\ SetupCalled(stage) = SetupDefined(stage)
          /\ SetupTopology(cfg).exchanges \subseteq exchanges
          /\ SetupTopology(cfg).queues \subseteq queues
          /\ SetupTopology(cfg).bindings \subseteq bindings

\* The worker consumes after a complete setup and a delivery has been made.
C32_Witness ==
    /\ Consuming
    /\ hist # <<>>
    /\ Cardinality(exchanges) = 2
    /\ Cardinality(queues) = 2
    /\ Cardinality(bindings) = 2
    /\ requested = SetupOrder

(***************************************************************************)
(* TranscriptMessageHandler.process of the transcript-analyzer: analyze    *)
(* (cache, then LLM), generate_insights, save_session_insights.  One call  *)
(* is one step of the single worker; the cache entry of a session can      *)
(* expire (ttl) between calls.                                             *)
(***************************************************************************)
MaxHandled == 2       \* calls of process that are followed

Utterance(role, sentiment_score, topic) ==
    [role |-> role, sentiment_score |-> sentiment_score, topic |-> topic]

TranscriptAnalysis(utterances, relationships, sentiment_score) ==
    [utterances |-> utterances, relationships |-> relationships,
     sentiment_score |-> sentiment_score, error |-> "null"]

\* What the LLM can answer for a transcript; it need not answer the same
\* twice.  Scores stand for floats in [-1.0, 1.0].
Analyses ==
    {TranscriptAnalysis(<<Utterance("patient", 1, <<"work">>),
                          Utterance("therapist", -1, <<"rules">>),
                          Utterance("patient", -1, <<"sleep", "family">>)>>,
                        <<[name |-> "mother", relationship |-> "parent",
                           sentiment_score |-> 1, mentions |-> 2]>>,
                        1),
     TranscriptAnalysis(<<>>, <<>>, 0)}

NoAnalysis ==
    [utterances |-> <<>>, relationships |-> <<>>, sentiment_score |-> 0,
     error |-> "none"]

\* The JSON text of an analysis: its fields by name.
model_dump_json(analysis) ==
    <<"utterances", analysis.utterances,
      "relationships", analysis.relationships,
      "sentiment_score", analysis.sentiment_score,
      "error", analysis.error>>

\* TranscriptAnalysis.model_validate_json: the fields are read back by name
\* and sentiment_score is checked against its range.
Validates(text) ==
    /\ Len(text) = 8
    /\ text[1] = "utterances" /\ text[3] = "relationships"
    /\ text[5] = "sentiment_score" /\ text[7] = "error"
    /\ text[6] \in -1..1

model_validate_json(text) ==
    [utterances |-> text[2], relationships |-> text[4],
     sentiment_score |-> text[6], error |-> text[8]]

\* `if cached:` is the truth value of what the cache returned: None and the
\* empty string are a miss.
CacheHit_Never(cached) == FALSE

CacheHit(cached) == cached.present /\ cached.text # <<>>

\* TranscriptAnalyzer.analyze on cache c: what it returns or raises, whether
\* it called the LLM, and the cache it leaves.  getFails and setFails are
\* Redis errors, answer is the LLM's answer or "fail".
analyze(c, session_id, getFails, answer, setFails) ==
    LET key == cache_key(session_id)
        cached == c[key]
    IN  IF getFails
        THEN [raised |-> "CacheServiceError", llm |-> FALSE,
              analysis |-> NoAnalysis, cache |-> c]
        ELSE IF CacheHit(cached)
        THEN IF Validates(cached.text)
             THEN [raised |-> "none", llm |-> FALSE,
                   analysis |-> model_validate_json(cached.text), cache |-> c]
             ELSE [raised |-> "ValidationError", llm |-> FALSE,
                   analysis |-> NoAnalysis, cache |-> c]
        ELSE IF answer \notin Analyses
        THEN [raised |-> "LLMServiceError", llm |-> TRUE,
              analysis |-> NoAnalysis, cache |-> c]
        ELSE IF setFails
        THEN [raised |-> "CacheServiceError", llm |-> TRUE,
              analysis |-> NoAnalysis, cache |-> c]
        ELSE [raised |-> "none", llm |-> TRUE, analysis |-> answer,
              cache |-> [c EXCEPT ![key] = Value(model_dump_json(answer))]]

\* _extract_topics: the topics of the patient's utterances whose score has
\* the given sign, in order.
RECURSIVE _extract_topics(_, _)
_extract_topics(utterances, sign) ==
    IF utterances = <<>> THEN <<>>
    ELSE LET u == Head(utterances)
         IN  (IF u.role = "patient" /\ sign * u.sentiment_score > 0
              THEN u.topic ELSE <<>>)
             \o _extract_topics(Tail(utterances), sign)

generate_insights(analysis) ==
    [positive_topics |-> _extract_topics(analysis.utterances, 1),
     negative_topics |-> _extract_topics(analysis.utterances, -1),
     sentiment_scores |->
        [i \in DOMAIN analysis.utterances |->
            analysis.utterances[i].sentiment_score],
     patient_relationships |-> analysis.relationships]

\* SessionMetadata of the messages: two sessions of one patient.
SessionMetadata(session_id, session_date) ==
    [session_id |-> session_id, session_date |-> session_date,
     patient_first_name |-> "john", patient_last_name |-> "doe"]

Metadata ==
    {SessionMetadata("sid", <<2025, 1, 15>>),
     SessionMetadata("sid2", <<2025, 2, 1>>)}

\* select(Patient).where(first_name == ..., last_name == ...)
SelectPatient(d, first_name, last_name) ==
    {p \in d.patients : p.first_name = first_name /\ p.last_name = last_name}

\* Patient(first_name=..., last_name=...): id is a fresh uuid4.
Patient(d, first_name, last_name) ==
    [id |-> Cardinality(d.patients) + 1, first_name |-> first_name,
     last_name |-> last_name]

\* add + commit of a new patient row.
AddPatient(d, patient) == [d EXCEPT !.patients = @ \cup {patient}]

\* merge + commit of Session(id, session_date, patient_id): the row of that
\* primary key is replaced, or inserted when there is none.
MergeSession(d, session_id, session_date, patient_id) ==
    [d EXCEPT !.sessions =
        {s \in @ : s.id # session_id}
           \cup {[id |-> session_id, session_date |-> session_date,
                  patient_id |-> patient_id]}]

HasInsights(d, session_id) ==
    \E r \in d.session_insights : r.session_id = session_id

\* merge + commit of SessionInsights(session=Session(id), ...): the row of
\* the session is replaced, or inserted when there is none.
MergeInsights(d, session_id, insights) ==
    [d EXCEPT !.session_insights =
        {r \in @ : r.session_id # session_id}
           \cup {[session_id |-> session_id, insights |-> insights]}]

\* _get_or_create_patient without the lookup.
GetOrCreate_AlwaysCreate(d, first) == TRUE

\* _get_or_create_patient: `if patient: return patient`, else a new row.
GetOrCreate(d, first) == first = NoPatient

\* save_session_insights on database d.  `first` is the row .first() returned
\* (NoPatient for none); failAt is the statement at which the database
\* fails (0: none); keyed tells whether merge finds the existing insights
\* row of the instance, which is built from the session relationship and
\* not from its primary key: if it does not, the insert of a second row for
\* the session is refused.  Every statement commits, so what was written
\* before a failure stays.
save_session_insights(d, metadata, insights, first, failAt, keyed) ==
    LET create == GetOrCreate(d, first)
        new == Patient(d, metadata.patient_first_name,
                       metadata.patient_last_name)
        d1 == IF create THEN AddPatient(d, new) ELSE d
        patient == IF create THEN new ELSE first
        d2 == MergeSession(d1, metadata.session_id, metadata.session_date,
                           patient.id)
        d3 == MergeInsights(d2, metadata.session_id, insights)
    IN  IF failAt = 1
        THEN [db |-> d, raised |-> "SessionPersistenceError"]
        ELSE IF failAt = 2
        THEN [db |-> d1, raised |-> "SessionPersistenceError"]
        ELSE IF failAt = 3 \/ (HasInsights(d2, metadata.session_id) /\ ~keyed)
        THEN [db |-> d2, raised |-> "SessionPersistenceError"]
        ELSE [db |-> d3, raised |-> "none"]

\* What .first() can return for a patient's name.
FirstOf(d, metadata) ==
    LET found == SelectPatient(d, metadata.patient_first_name,
                               metadata.patient_last_name)
    IN  IF found = {} THEN {NoPatient} ELSE found

\* TranscriptMessageHandler.process for the message of a session.
HandlerProcess ==
    /\ Len(handled) < MaxHandled
    /\ \E metadata \in Metadata :
       \E downloadFails \in {FALSE, TRUE} :
       \E getFails \in {FALSE, TRUE} :
       \E answer \in Analyses \cup {NoAnalysis} :
       \E setFails \in {FALSE, TRUE} :
       \E first \in FirstOf(db, metadata) :
       \E failAt \in 0..3 :
       \E keyed \in {FALSE, TRUE} :
          LET a == IF downloadFails
                   THEN [raised |-> "StorageDownloadError", llm |-> FALSE,
                         analysis |-> NoAnalysis, cache |-> cache]
                   ELSE analyze(cache, metadata.session_id, getFails, answer,
                                setFails)
              insights == generate_insights(a.analysis)
              s == IF a.raised = "none"
                   THEN save_session_insights(db, metadata, insights, first,
                                              failAt, keyed)
                   ELSE [db |-> db, raised |-> a.raised]
              hit == CacheHit(cache[cache_key(metadata.session_id)])
          IN  \* an input that is not consulted has one value
              /\ (downloadFails => ~getFails)
              /\ (downloadFails \/ getFails \/ hit)
                    => (answer = NoAnalysis /\ ~setFails)
              /\ (answer = NoAnalysis => ~setFails)
              /\ (a.raised # "none" => failAt = 0)
              /\ (a.raised # "none" \/ failAt # 0
                     \/ ~HasInsights(db, metadata.session_id)) => keyed
              /\ cache' = a.cache
              /\ db' = s.db
              /\ handled' = Append(handled,
                    [metadata |-> metadata,
                     cached |-> cache[cache_key(metadata.session_id)],
                     called |-> ~downloadFails,
                     llm |-> a.llm,
                     analysis |-> a.analysis,
                     saved |-> a.raised = "none",
                     insights |-> insights,
                     raised |-> s.raised,
                     cache |-> a.cache[cache_key(metadata.session_id)],
                     db |-> s.db])
    /\ UNCHANGED <<configuration, endpoint, pipeline, stage, given, pc,
                   requested, topology, brokerMsgs, inbox, nextTag, nextId,
                   callback, hist, published, escaped, local>>

\* The ttl of a cache entry runs out (set(..., ex=ttl_seconds)).
Expire ==
    /\ \E k \in CacheKeys :
          /\ cache[k].present
          /\ cache' = [cache EXCEPT ![k] = NoValue]
    /\ UNCHANGED <<configuration, endpoint, pipeline, stage, given, pc,
                   requested, topology, brokerMsgs, inbox, nextTag, nextId,
                   callback, hist, published, escaped, db, handled, local>>

NextHandler ==
    \/ HandlerProcess
    \/ Expire

SpecHandler == InitConsume /\ [][NextHandler]_vars

\* C33: analyze calls the LLM at most once per session while the session's
\* cache entry exists: a call that finds the entry does not call the LLM and
\* returns the analysis the LLM gave when the entry was written; a call that
\* misses and returns has stored its result under analysis:<session_id>; so
\* the redelivery of a session whose later step failed, the entry still
\* there, returns the same analysis without an LLM call.
C33_CachedAnalysisReused ==
    \A j \in DOMAIN handled :
       LET h == handled[j]
           sid == h.metadata.session_id
       IN  /\ h.llm => ~h.cached.present
           /\ (h.called /\ h.cached.present)
                 => /\ ~h.llm
                    /\ h.cache = h.cached
                    /\ h.saved \/ h.raised = "CacheServiceError"
           /\ (h.saved /\ h.cached.present)
                 => /\ model_dump_json(h.analysis) = h.cached.text
                    /\ \E i \in 1..(j - 1) :
                          /\ handled[i].metadata.session_id = sid
                          /\ handled[i].llm /\ handled[i].saved
                          /\ handled[i].analysis = h.analysis
           /\ (h.saved /\ h.llm)
                 => h.cache = Value(model_dump_json(h.analysis))
           /\ (j > 1 /\ handled[j - 1].metadata.session_id = sid
                     /\ handled[j - 1].saved
                     /\ h.cached = handled[j - 1].cache
                     /\ h.saved)
                 => /\ ~h.llm
                    /\ h.analysis = handled[j - 1].analysis

\* The persistence of a session failed after its analysis; the message came
\* again and the analysis was taken from the cache.
C33_Witness ==
    /\ Len(handled) >= 2
    /\ handled[1].llm /\ handled[1].saved
    /\ handled[1].raised = "SessionPersistenceError"
    /\ handled[2].metadata = handled[1].metadata
    /\ handled[2].cached.present
    /\ ~handled[2].llm
    /\ handled[2].raised = "none"
    /\ handled[2].analysis = handled[1].analysis
    /\ handled[2].analysis \in Analyses

MaxSaves == 2         \* calls of save_session_insights per worker

Leave(w, pcNext, patient) ==
    [local EXCEPT ![w] =
        [pc |-> pcNext,
         metadata |-> IF pcNext = "idle" THEN NoMetadata ELSE @.metadata,
         patient |-> IF pcNext = "idle" THEN NoPatient ELSE patient,
         saves |-> @.saves]]

\* save_session_insights is entered and _get_or_create_patient selects the
\* patient by name.
SelectStep(w) ==
    /\ local[w].pc = "idle"
    /\ local[w].saves < MaxSaves
    /\ \E metadata \in Metadata :
       \E first \in FirstOf(db, metadata) :
          local' = [local EXCEPT ![w] =
                       [pc |-> IF GetOrCreate(db, first) THEN "create"
                                                         ELSE "session",
                        metadata |-> metadata,
                        patient |-> first,
                        saves |-> @.saves + 1]]
    /\ UNCHANGED <<configuration, endpoint, pipeline, stage, given, pc,
                   requested, topology, brokerMsgs, inbox, nextTag, nextId,
                   callback, hist, published, escaped, cache, db, handled>>

\* No row was selected: Patient(...), add, commit, refresh.
CreateStep(w) ==
    /\ local[w].pc = "create"
    /\ \E failed \in {FALSE, TRUE} :
          LET m == local[w].metadata
              new == Patient(db, m.patient_first_name, m.patient_last_name)
          IN  IF failed
              THEN /\ local' = Leave(w, "idle", NoPatient)
                   /\ UNCHANGED db
              ELSE /\ db' = AddPatient(db, new)
                   /\ local' = Leave(w, "session", new)
    /\ UNCHANGED <<configuration, endpoint, pipeline, stage, given, pc,
                   requested, topology, brokerMsgs, inbox, nextTag, nextId,
                   callback, hist, published, escaped, cache, handled>>

\* _create_session: merge, commit.
SessionStep(w) ==
    /\ local[w].pc = "session"
    /\ \E failed \in {FALSE, TRUE} :
          LET m == local[w].metadata
          IN  IF failed
              THEN /\ local' = Leave(w, "idle", NoPatient)
                   /\ UNCHANGED db
              ELSE /\ db' = MergeSession(db, m.session_id, m.session_date,
                                         local[w].patient.id)
                   /\ local' = Leave(w, "insights", local[w].patient)
    /\ UNCHANGED <<configuration, endpoint, pipeline, stage, given, pc,
                   requested, topology, brokerMsgs, inbox, nextTag, nextId,
                   callback, hist, published, escaped, cache, handled>>

\* _save_insights: merge, commit; save_session_insights returns or raises.
InsightsStep(w) ==
    /\ local[w].pc = "insights"
    /\ \E failed \in {FALSE, TRUE} :
       \E keyed \in {FALSE, TRUE} :
       \E analysis \in Analyses :
          LET m == local[w].metadata
          IN  /\ (failed \/ ~HasInsights(db, m.session_id)) => keyed
              /\ local' = Leave(w, "idle", NoPatient)
              /\ IF failed \/ (HasInsights(db, m.session_id) /\ ~keyed)
                 THEN UNCHANGED db
                 ELSE db' = MergeInsights(db, m.session_id,
                                          generate_insights(analysis))
    /\ UNCHANGED <<configuration, endpoint, pipeline, stage, given, pc,
                   requested, topology, brokerMsgs, inbox, nextTag, nextId,
                   callback, hist, published, escaped, cache, handled>>

NextWorkers ==
    \E w \in Workers :
       \/ SelectStep(w)
       \/ CreateStep(w)
       \/ SessionStep(w)
       \/ InsightsStep(w)

SpecWorkers == InitConsume /\ [][NextWorkers]_vars

\* C35: with several workers saving sessions of the same patient at the same
\* time, the patients table never holds two rows with the same first_name
\* and last_name.
C35_OnePatientPerName ==
    \A p \in db.patients : \A q \in db.patients :
       (p.first_name = q.first_name /\ p.last_name = q.last_name) => p = q

Stored(request) == \E o \in objects : o.request = request

Announced(request) ==
    \E e \in events : e.by = "session-upload" /\ e.origin = request

\* C36: the upload endpoint publishes video.upload.completed only after the
\* object was stored: an announced upload is a stored one; a request whose
\* storage upload failed has no event and no object and ends with 500; a
\* request whose publish failed ends with 500 and has no event; and the
\* success response is given exactly for the requests that were stored and
\* announced.
C36_PublishAfterStore ==
    /\ \A e \in events :
          e.by = "session-upload"
             => /\ Stored(e.origin)
                /\ \E i \in DOMAIN responses : responses[i].request = e.origin
    /\ \A i \in DOMAIN responses :
          LET r == responses[i]
          IN  /\ r.request = i
              /\ r.status_code \in {200, 422, 500}
              /\ r.detail = "File upload failed"
                    => /\ r.status_code = 500
                       /\ ~Stored(r.request) /\ ~Announced(r.request)
              /\ r.detail = "Event publish failed"
                    => /\ r.status_code = 500
                       /\ Stored(r.request) /\ ~Announced(r.request)
              /\ r.status_code = 422
                    => ~Stored(r.request) /\ ~Announced(r.request)
              /\ r.status_code = 200
                    <=> (Stored(r.request) /\ Announced(r.request))

\* One request failed in storage, the next was stored but its publish
\* failed: two 500 responses, one object, no event.
C36_Witness ==
    /\ Len(responses) = 2
    /\ responses[1].detail = "File upload failed"
    /\ responses[2].detail = "Event publish failed"
    /\ Cardinality(objects) = 1
    /\ events = {}

====
